---------------------------- MODULE Spec2Model ----------------------------
(* A model of the scam honeypot: the ScamDetector verdict fusion of
   models/scam_detector.py and the standalone tiered classifier of app.py.
   Text is a sequence of one-character strings, so that substring tests,
   lower-casing, trimming and the regular expressions are computed on the
   characters, as the Python code computes them.  Probabilities are integers
   counted in trees of the forest (k of n_estimators); scores that the code
   rounds to three decimals are integers counted in thousandths. *)
EXTENDS Integers, Sequences, FiniteSets, TLC

VARIABLES
  trained,     \* the forest that _train_model fits (random_state = 42)
  model,       \* ScamDetector.model: the fitted forest, or NoModel
  vectorizer,  \* ScamDetector.vectorizer: the fitted vectorizer, or NoVectorizer
  history,     \* the caller's conversation history of the session
  analysed,    \* the arguments of the last analyze call, or NoCall
  result,      \* the DetectionResult of the last analyze call, or NoResult
  remembered,  \* an earlier analyze call the caller kept, with its result
  ai_available,\* app.py: whether the Groq client was initialised
  groq_client, \* app.py: the Groq client, or NoClient
  request,     \* app.py: the arguments of the last conversation_is_scam call
  ai_answer,   \* app.py: what the provider did in that call, or NoAnswer
  verdict,     \* app.py: what conversation_is_scam returned
  _sent_sessions, \* utils/callback.py: the session ids already notified
  deliveries,  \* the delivery threads started so far, each with its state
  calls,       \* the send_callback_async calls that returned, in order
  callers,     \* the request threads inside send_callback_async
  posts,       \* app.py: the posts of the endpoint to the collector
  response,    \* app.py: the last response of the endpoint, or NoResponse
  handler,     \* app.py: the request the endpoint is handling, or Idle
  session,     \* the sessionId the client gives in its requests, or NoSid
  agent_client,\* ResponseAgent.client: the Groq client, or NoClient
  reply,       \* the last generate_reply or agent_reply call, or NoReply
  extracted,   \* the last extract_intelligence call, or NoExtraction
  store,       \* models/scam_detector.py: the artifact file MODEL_FILE
  writable,    \* whether MODEL_FILE can be written
  constructed, \* whether ScamDetector() has returned ("yes"), raised, or not run
  fits,        \* how many times _train_model has fitted a forest
  writes,      \* how many times joblib.dump has opened MODEL_FILE
  loaders      \* the ScamDetector() calls under way at the same time

vars == <<trained, model, vectorizer, history, analysed, result, remembered,
          ai_available, groq_client, request, ai_answer, verdict,
          _sent_sessions, deliveries, calls, callers,
          posts, response, handler, session, agent_client, reply, extracted,
          store, writable, constructed, fits, writes, loaders>>

callbackVars == <<_sent_sessions, deliveries, calls, callers>>
endpointVars == <<posts, response, handler, session>>
agentVars == <<agent_client, reply>>
extractVars == <<extracted>>
storeVars == <<store, writable, constructed, fits, writes, loaders>>

(***************************************************************************)
(* Text: str.lower, str.strip, `p in text`, concatenation.                 *)
(***************************************************************************)
UpperChars == <<"A","B","C","D","E","F","G","H","I","J","K","L","M","N","O","P","Q","R","S","T","U","V","W","X","Y","Z">>
LowerChars == <<"a","b","c","d","e","f","g","h","i","j","k","l","m","n","o","p","q","r","s","t","u","v","w","x","y","z">>
Digits == {"0","1","2","3","4","5","6","7","8","9"}
Whitespace == {" ", "\t", "\n", "\r"}

LowerOf ==
  [c \in {UpperChars[k] : k \in 1..Len(UpperChars)} |->
     LowerChars[CHOOSE k \in 1..Len(UpperChars) : UpperChars[k] = c]]
UpperOf ==
  [c \in {LowerChars[k] : k \in 1..Len(LowerChars)} |->
     UpperChars[CHOOSE k \in 1..Len(LowerChars) : LowerChars[k] = c]]

\* str.lower() and str.upper()
lower(text) ==
  [i \in 1..Len(text) |->
     IF text[i] \in DOMAIN LowerOf THEN LowerOf[text[i]] ELSE text[i]]
upper(text) ==
  [i \in 1..Len(text) |->
     IF text[i] \in DOMAIN UpperOf THEN UpperOf[text[i]] ELSE text[i]]

\* str.strip(): the text without its leading and trailing whitespace.
strip(text) ==
  IF \A i \in 1..Len(text) : text[i] \in Whitespace
  THEN << >>
  ELSE LET first == CHOOSE i \in 1..Len(text) :
                      /\ text[i] \notin Whitespace
                      /\ \A j \in 1..(i-1) : text[j] \in Whitespace
           last  == CHOOSE i \in 1..Len(text) :
                      /\ text[i] \notin Whitespace
                      /\ \A j \in (i+1)..Len(text) : text[j] \in Whitespace
       IN  SubSeq(text, first, last)

\* Python's `p in text` on strings: p occurs in text as a substring.
In(p, text) ==
  \E i \in 0..(Len(text) - Len(p)) : \A j \in 1..Len(p) : text[i + j] = p[j]

\* " ".join(texts)
RECURSIVE join(_)
join(texts) ==
  IF texts = << >> THEN << >>
  ELSE IF Len(texts) = 1 THEN texts[1]
  ELSE texts[1] \o <<" ">> \o join(Tail(texts))

\* any(p in text for p in patterns)
_contains(patterns, text) ==
  \E k \in 1..Len(patterns) : In(patterns[k], text)

(***************************************************************************)
(* Regular expressions (re.search).  A pattern is a sequence of items, each *)
(* a character class with the least and the greatest number of repetitions  *)
(* (hi = Unbounded for + and * ); alternatives are separate patterns.         *)
(***************************************************************************)
Unbounded == 0 - 1
AnyChar == {"<any>"}   \* the class of `.` : every character but a line break
LineBreak == "\n"

InClass(c, cls) == IF cls = AnyChar THEN c # LineBreak ELSE c \in cls

Lit(text) == [i \in 1..Len(text) |-> [cls |-> {text[i]}, lo |-> 1, hi |-> 1]]
Rep(cls, lo, hi) == << [cls |-> cls, lo |-> lo, hi |-> hi] >>

\* Whether items k.. of the pattern match the text from position i on.
RECURSIVE MatchFrom(_, _, _, _)
MatchFrom(pat, k, text, i) ==
  IF k > Len(pat) THEN TRUE
  ELSE LET item == pat[k]
           room == Len(text) - i + 1
           most == IF item.hi = Unbounded \/ item.hi > room THEN room ELSE item.hi
       IN  \E n \in item.lo..most :
             /\ \A j \in 0..(n-1) : InClass(text[i + j], item.cls)
             /\ MatchFrom(pat, k + 1, text, i + n)

\* re.search(pat, text) is not None
search(pat, text) == \E i \in 1..(Len(text) + 1) : MatchFrom(pat, 1, text, i)

\* A slip: the pattern without the optional s.
LinkPattern_http ==
  Lit(<<"h","t","t","p",":","/","/">>)

\* r"https?://"
LinkPattern ==
  Lit(<<"h","t","t","p">>) \o Rep({"s"}, 0, 1) \o Lit(<<":","/","/">>)

(***************************************************************************)
(* models/scam_detector.py: the keyword lists of _heuristic_score.         *)
(***************************************************************************)
UrgencyKeywords ==
  << <<"u","r","g","e","n","t">>,
    <<"i","m","m","e","d","i","a","t","e","l","y">>,
    <<"w","i","t","h","i","n">>,
    <<"b","l","o","c","k","e","d">>,
    <<"s","u","s","p","e","n","d","e","d">>,
    <<"d","e","a","c","t","i","v","a","t","e","d">>,
    <<"l","i","m","i","t","e","d">>,
    <<"u","n","u","s","u","a","l"," ","a","c","t","i","v","i","t","y">>,
    <<"s","u","s","p","i","c","i","o","u","s">>,
    <<"a","v","o","i","d">> >>
FinancialKeywords ==
  << <<"b","a","n","k">>,
    <<"a","c","c","o","u","n","t">>,
    <<"p","a","y","m","e","n","t">>,
    <<"t","r","a","n","s","f","e","r">>,
    <<"r","e","f","u","n","d">>,
    <<"u","p","i">>,
    <<"c","r","e","d","i","t">>,
    <<"d","e","b","i","t">> >>
ActionKeywords ==
  << <<"r","e","s","t","o","r","e">>,
    <<"r","e","a","c","t","i","v","a","t","e">>,
    <<"v","e","r","i","f","y">>,
    <<"c","o","n","f","i","r","m">>,
    <<"s","u","b","m","i","t">>,
    <<"u","p","d","a","t","e">>,
    <<"c","l","i","c","k">>,
    <<"l","o","g","i","n">>,
    <<"r","e","s","p","o","n","d">> >>
OtpKeywords ==
  << <<"o","t","p">>,
    <<"p","i","n">>,
    <<"u","p","i"," ","p","i","n">> >>
RewardKeywords ==
  << <<"p","r","i","z","e">>,
    <<"r","e","w","a","r","d">>,
    <<"l","o","t","t","e","r","y">>,
    <<"c","a","s","h","b","a","c","k">>,
    <<"f","r","e","e">>,
    <<"o","f","f","e","r">>,
    <<"w","o","n">>,
    <<"b","o","n","u","s">> >>

legitimacy_words ==
  << <<"o","t","p">>,
    <<"o","n","e"," ","t","i","m","e"," ","p","a","s","s","w","o","r","d">>,
    <<"d","e","b","i","t","e","d">>,
    <<"c","r","e","d","i","t","e","d">>,
    <<"t","x","n">>,
    <<"t","r","a","n","s","a","c","t","i","o","n">>,
    <<"s","t","a","t","e","m","e","n","t">>,
    <<"m","a","i","n","t","e","n","a","n","c","e">>,
    <<"a","c","c","o","u","n","t"," ","e","n","d","i","n","g">>,
    <<"a","v","a","i","l","a","b","l","e"," ","b","a","l","a","n","c","e">>,
    <<"a","v","l"," ","b","a","l">>,
    <<"e","m","i">> >>

safe_patterns ==
  << <<"s","c","h","e","d","u","l","e","d"," ","m","a","i","n","t","e","n","a","n","c","e">>,
    <<"m","a","i","n","t","e","n","a","n","c","e">>,
    <<"d","e","b","i","t","e","d">>,
    <<"c","r","e","d","i","t","e","d">>,
    <<"a","v","a","i","l","a","b","l","e"," ","b","a","l","a","n","c","e">>,
    <<"a","v","l"," ","b","a","l">> >>
Maintenance == <<"m","a","i","n","t","e","n","a","n","c","e">>

(***************************************************************************)
(* Arithmetic: Python's round(x, 3) on the exact quotient num/den, counted  *)
(* in thousandths (ties to the even neighbour).                             *)
(***************************************************************************)
Max(a, b) == IF a >= b THEN a ELSE b
Min(a, b) == IF a <= b THEN a ELSE b

round(num, den) ==
  LET q == num \div den
      r == num % den
  IN  IF 2 * r < den THEN q
      ELSE IF 2 * r > den THEN q + 1
      ELSE IF q % 2 = 0 THEN q ELSE q + 1

(***************************************************************************)
(* models/scam_detector.py                                                 *)
(***************************************************************************)
\* The category weights of _heuristic_score.
UrgencyWeight == 2
FinancialWeight == 2
ActionWeight == 1
OtpWeight == 2
RewardWeight == 3
LinkWeight == 3

\* A slip: every keyword that occurs adds the weight of its category.
Hits(patterns, text) ==
  Cardinality({k \in 1..Len(patterns) : In(patterns[k], text)})
_heuristic_score_per_keyword(text) ==
  LET text_l == lower(text)
  IN  Hits(UrgencyKeywords, text_l) * UrgencyWeight
    + Hits(FinancialKeywords, text_l) * FinancialWeight
    + Hits(ActionKeywords, text_l) * ActionWeight
    + Hits(OtpKeywords, text_l) * OtpWeight
    + Hits(RewardKeywords, text_l) * RewardWeight
    + (IF search(LinkPattern, text_l) THEN LinkWeight ELSE 0)

_heuristic_score(text) ==
  LET text_l == lower(text)
  IN  (IF _contains(UrgencyKeywords, text_l) THEN UrgencyWeight ELSE 0)
    + (IF _contains(FinancialKeywords, text_l) THEN FinancialWeight ELSE 0)
    + (IF _contains(ActionKeywords, text_l) THEN ActionWeight ELSE 0)
    + (IF _contains(OtpKeywords, text_l) THEN OtpWeight ELSE 0)
    + (IF _contains(RewardKeywords, text_l) THEN RewardWeight ELSE 0)
    + (IF search(LinkPattern, text_l) THEN LinkWeight ELSE 0)

\* The last entry of _custom_feature_row: round(min(1.0, present / 3.0), 3),
\* in thousandths.
legitimacy_score(text) ==
  LET text_l  == lower(text)
      present == Cardinality({k \in 1..Len(legitimacy_words) :
                                In(legitimacy_words[k], text_l)})
  IN  IF present >= 3 THEN 1000 ELSE round(1000 * present, 3)

\* n_estimators of the RandomForestClassifier: predict_proba is the mean of
\* the trees' votes, so a probability is k / n_estimators.
n_estimators == 120

\* The probabilities the classifier is taken to return, in trees: the two
\* ends and the values on either side of the thresholds 0.45, 0.55, 0.65.
MlValues == <<0, 53, 54, 65, 66, 77, 78, 120>>

\* The fitted forests.  Training is deterministic (random_state = 42) but
\* what it yields is decided by the library: one of these.
Forests == 0..(Len(MlValues) - 1)

\* model.predict_proba(features)[0][1]: a function of the fitted forest and
\* of the text alone.  Every forest gives the text a value, and over the
\* forests the text gets every value of MlValues.
predict_proba(forest, text) ==
  MlValues[((forest + Len(text)) % Len(MlValues)) + 1]

\* The thresholds of analyze, in hundredths.
ScamThreshold == 55
BorderlineThreshold == 45
LowSignalThreshold == 65
\* ... and its fixed scores, in thousandths.
SafeConfidence == 50
SecondaryLegitimacy == 667
LegitimacyCeiling == 700
OverrideLegitimacy == 300
OverrideCap == 150
LowSignalCap == 200
MaxConfidence == 990

\* legit_patterns of analyze, each a regular expression.
legit_patterns ==
  << Lit(<<"i","n","r">>) \o Rep(Whitespace, 1, Unbounded)
       \o Rep(Digits \cup {",", "."}, 1, Unbounded) \o Rep(Whitespace, 1, Unbounded)
       \o Lit(<<"d","e","b","i","t","e","d">>) \o Rep(Whitespace, 1, Unbounded)
       \o Lit(<<"f","r","o","m">>) \o Rep(Whitespace, 1, Unbounded)
       \o Lit(<<"a","/","c">>),
     Lit(<<"i","n","r">>) \o Rep(Whitespace, 1, Unbounded)
       \o Rep(Digits \cup {",", "."}, 1, Unbounded) \o Rep(Whitespace, 1, Unbounded)
       \o Lit(<<"c","r","e","d","i","t","e","d">>) \o Rep(Whitespace, 1, Unbounded)
       \o Lit(<<"f","r","o","m">>) \o Rep(Whitespace, 1, Unbounded)
       \o Lit(<<"a","/","c">>),
     Lit(<<"c","r","e","d","i","t"," ","o","f"," ","r","s">>),
     Lit(<<"c","r","e","d","i","t","e","d"," ","t","o"," ","y","o","u","r"," ","a","c","c","o","u","n","t">>),
     Lit(<<"y","o","u","r"," ","o","t","p"," ","i","s"," ">>) \o Rep(Digits, 4, 6),
     Lit(<<"s","c","h","e","d","u","l","e","d"," ","m","a","i","n","t","e","n","a","n","c","e">>),
     Lit(<<"a","v","a","i","l","a","b","l","e"," ","b","a","l","a","n","c","e">>),
     Lit(<<"m","o","n","t","h","l","y"," ","a","c","c","o","u","n","t"," ","s","t","a","t","e","m","e","n","t">>),
     Lit(<<"e","m","i"," ">>) \o Rep(AnyChar, 0, Unbounded)
       \o Lit(<<" ","a","u","t","o","-","d","e","b","i","t","e","d">>) >>

\* legit_override = any(re.search(p, combined_text.lower()) for p in legit_patterns)
legit_override(combined) ==
  LET text_l == lower(combined)
  IN  \E k \in 1..Len(legit_patterns) : search(legit_patterns[k], text_l)

\* history[-3:]
LastThree(hist) == SubSeq(hist, Max(1, Len(hist) - 2), Len(hist))

\* combined_text: the trimmed message, a space, and the texts of the scammer
\* messages among history[-3:], joined by spaces; the whole trimmed again.
combined_text(message_text, hist) ==
  LET scam == SelectSeq(LastThree(hist), LAMBDA m : m.sender = "scammer")
      last_scammer_msgs == join([i \in 1..Len(scam) |-> scam[i].text])
  IN  strip(strip(message_text) \o <<" ">> \o last_scammer_msgs)

\* A slip: only the first safe pattern is tested.
safe_short_circuit_first(text_l) == In(safe_patterns[1], text_l)

\* The hard safety override: any(p in text_l for p in safe_patterns).
safe_short_circuit(text_l) == _contains(safe_patterns, text_l)

\* A slip: the confidence without the clamp to [0, 0.99].
scam_confidence_unclamped(ml, heuristic, legitimacy) ==
  round(Max(6 * ml, n_estimators * heuristic) * (10000 - 4 * legitimacy),
        60 * n_estimators)

\* scam_confidence before the caps, in thousandths: max(ml, heuristic / 6)
\* damped by (1 - legitimacy * 0.4), clamped to [0, 0.99], rounded.
scam_confidence(ml, heuristic, legitimacy) ==
  LET num == Max(6 * ml, n_estimators * heuristic) * (10000 - 4 * legitimacy)
      den == 60 * n_estimators
  IN  IF num <= 0 THEN 0
      ELSE IF num >= MaxConfidence * den THEN MaxConfidence
      ELSE round(num, den)

\* A slip: the legitimate patterns are left out of the override.
safe_override_no_pattern(heuristic, legitimacy, legit) ==
  legitimacy >= OverrideLegitimacy /\ heuristic <= 1

safe_override(heuristic, legitimacy, legit) ==
  (legitimacy >= OverrideLegitimacy /\ heuristic <= 1) \/ legit

\* ml_proba >= 0.55 or (ml_proba >= 0.45 and heuristic >= 3)
raw_threshold(ml, heuristic) ==
  \/ 100 * ml >= ScamThreshold * n_estimators
  \/ (100 * ml >= BorderlineThreshold * n_estimators /\ heuristic >= 3)

\* A slip: the low-signal guard ends at the scam threshold.
low_signal_at_threshold(ml, heuristic) ==
  heuristic <= 1 /\ 100 * ml < ScamThreshold * n_estimators

low_signal(ml, heuristic) ==
  heuristic <= 1 /\ 100 * ml < LowSignalThreshold * n_estimators

\* A slip: the verdict without the legitimacy ceiling.
fusion_no_ceiling(ml, heuristic, legitimacy, legit) ==
  LET conf0 == scam_confidence(ml, heuristic, legitimacy)
      over  == safe_override(heuristic, legitimacy, legit)
      low   == low_signal(ml, heuristic)
  IN  [is_scam    |-> ~over /\ ~low /\ raw_threshold(ml, heuristic),
       confidence |-> IF low THEN Min(IF over THEN Min(conf0, OverrideCap) ELSE conf0,
                                      LowSignalCap)
                      ELSE IF over THEN Min(conf0, OverrideCap) ELSE conf0]

\* The verdict and the confidence of analyze from its four signals.
fusion(ml, heuristic, legitimacy, legit) ==
  LET conf0 == scam_confidence(ml, heuristic, legitimacy)
      over  == safe_override(heuristic, legitimacy, legit)
      scam0 == ~over /\ raw_threshold(ml, heuristic) /\ legitimacy < LegitimacyCeiling
      conf1 == IF over THEN Min(conf0, OverrideCap) ELSE conf0
      scam1 == IF over THEN FALSE ELSE scam0
      low   == low_signal(ml, heuristic)
  IN  [is_scam    |-> IF low THEN FALSE ELSE scam1,
       confidence |-> IF low THEN Min(conf1, LowSignalCap) ELSE conf1]

\* ScamDetector.analyze with the forest it predicts with.
analyze(forest, message_text, hist) ==
  LET combined == combined_text(message_text, hist)
      text_l   == lower(combined)
  IN  IF safe_short_circuit(text_l)
      THEN [is_scam            |-> FALSE,
            confidence         |-> SafeConfidence,
            ml_probability     |-> 0,
            heuristic_score    |-> 0,
            legitimacy_score   |-> IF In(Maintenance, text_l)
                                   THEN 1000 ELSE SecondaryLegitimacy,
            combined_text_used |-> combined]
      ELSE LET heuristic  == _heuristic_score(combined)
               legitimacy == legitimacy_score(combined)
               ml_proba   == predict_proba(forest, combined)
               out        == fusion(ml_proba, heuristic, legitimacy,
                                    legit_override(combined))
           IN  [is_scam            |-> out.is_scam,
                confidence         |-> out.confidence,
                ml_probability     |-> round(1000 * ml_proba, n_estimators),
                heuristic_score    |-> heuristic,
                legitimacy_score   |-> legitimacy,
                combined_text_used |-> combined]


(***************************************************************************)
(* The texts the callers send.                                             *)
(***************************************************************************)
\* test_comprehensive.py: the high-confidence scam
MsgBlocked ==
  <<"Y","o","u","r"," ","b","a","n","k"," ","a","c","c","o","u","n","t"," ","w","i","l","l"," ","b","e"," ","b","l","o","c","k","e","d"," ","i","m","m","e","d","i","a","t","e","l","y","!"," ","V","e","r","i","f","y"," ","n","o","w"," ","a","t"," ","h","t","t","p","s",":","/","/","f","a","k","e","-","b","a","n","k",".","c","o","m">>
\* demo_ml_detection.py: a legitimate OTP notice
MsgOtp ==
  <<"Y","o","u","r"," ","O","T","P"," ","i","s"," ","1","2","3","4","5","6"," ","f","o","r"," ","t","r","a","n","s","a","c","t","i","o","n"," ","a","t"," ","A","m","a","z","o","n",".">>
\* a safe phrase, in mixed case, among scam signals
MsgMaintenance ==
  <<"S","c","h","e","d","u","l","e","d"," ","M","A","I","N","T","E","N","A","N","C","E",":"," ","c","l","i","c","k"," ","h","t","t","p","s",":","/","/","x",".","c","o"," ","t","o"," ","c","l","a","i","m"," ","y","o","u","r"," ","p","r","i","z","e">>
\* test_comprehensive.py: a legitimate debit notice
MsgDebited ==
  <<"I","N","R"," ","2",",","5","0","0"," ","D","e","b","i","t","e","d"," ","f","r","o","m"," ","A","/","C"," ","X","X","X","X","1","2","3","4">>
\* test_honeypot.py: no signal at all
MsgHello ==
  <<"H","e","l","l","o",","," ","h","o","w"," ","a","r","e"," ","y","o","u"," ","d","o","i","n","g"," ","t","o","d","a","y","?">>
\* three keywords of one category
MsgWon ==
  <<"Y","o","u"," ","w","o","n"," ","a"," ","f","r","e","e"," ","p","r","i","z","e">>
\* one legitimacy term, no signal, a trailing space
MsgTxn ==
  <<"R","e","f"," ","T","X","N","1","2","3","4","5"," ">>
\* a legitimate pattern with scam signals
MsgStatement ==
  <<"M","o","n","t","h","l","y"," ","a","c","c","o","u","n","t"," ","s","t","a","t","e","m","e","n","t"," ","i","s"," ","r","e","a","d","y","."," ","L","o","g","i","n"," ","t","o"," ","v","i","e","w",".">>
\* financial and action: the medium tier of app.py
MsgVerify ==
  <<"V","e","r","i","f","y"," ","y","o","u","r"," ","a","c","c","o","u","n","t">>
\* four legitimacy terms, no safe phrase, no legitimate pattern
MsgEmi ==
  <<"E","M","I"," ","t","x","n"," ","s","t","a","t","e","m","e","n","t",":"," ","s","h","a","r","e"," ","O","T","P">>
Messages == {MsgBlocked, MsgOtp, MsgMaintenance, MsgDebited, MsgHello, MsgWon, MsgTxn, MsgStatement, MsgVerify, MsgEmi}

\* a safe phrase in an earlier scammer message
HistCredited ==
  <<"R","s"," ","5","0","0"," ","c","r","e","d","i","t","e","d">>
\* scam signals in an earlier scammer message
HistUpi ==
  <<"S","h","a","r","e"," ","y","o","u","r"," ","U","P","I"," ","P","I","N"," ","n","o","w">>
\* the user's own reply, with a safe phrase and a reward keyword
HistUser ==
  <<"I","s"," ","t","h","i","s"," ","m","a","i","n","t","e","n","a","n","c","e","?"," ","I"," ","g","o","t"," ","a"," ","r","e","w","a","r","d"," ","o","f","f","e","r">>
\* an earlier scammer message with no signal
HistHello ==
  <<"H","e","l","l","o"," ","d","e","a","r">>

\* What a caller may append to the history: scammer messages and user replies.
HistoryEntries ==
  { [sender |-> "scammer", text |-> HistCredited],
    [sender |-> "scammer", text |-> HistUpi],
    [sender |-> "user",    text |-> HistUser] }

\* ... and to the history of a conversation sent to app.py.
AppHistoryEntries ==
  { [sender |-> "scammer", text |-> HistUpi],
    [sender |-> "scammer", text |-> HistHello],
    [sender |-> "user",    text |-> HistUser] }

\* The longest history of a session.
MaxHist == 4
\* The longest history of a session whose calls are compared with each other.
MaxRepeatHist == 1

\* None, for the model (forests are numbers), the vectorizer and the client.
NoModel == 0 - 1
NoVectorizer == "None"
Fitted == "fitted"
NoClient == "None"
Client == "Groq"
NoCall == [text |-> << >>, history |-> << >>, made |-> FALSE]
NoResult == [none |-> TRUE]
NoMemory == [text |-> << >>, history |-> << >>, made |-> FALSE, others |-> FALSE,
             result |-> NoResult]


(***************************************************************************)
(* app.py: the standalone three-tier classifier.                           *)
(***************************************************************************)
urgency_signals ==
  << <<"u","r","g","e","n","t">>,
    <<"i","m","m","e","d","i","a","t","e","l","y">>,
    <<"w","i","t","h","i","n">>,
    <<"b","l","o","c","k","e","d">>,
    <<"s","u","s","p","e","n","d","e","d">>,
    <<"d","e","a","c","t","i","v","a","t","e","d">>,
    <<"l","i","m","i","t","e","d">>,
    <<"u","n","u","s","u","a","l"," ","a","c","t","i","v","i","t","y">>,
    <<"s","u","s","p","i","c","i","o","u","s">>,
    <<"d","i","s","r","u","p","t","i","o","n">>,
    <<"a","v","o","i","d">> >>
financial_signals ==
  << <<"b","a","n","k">>,
    <<"a","c","c","o","u","n","t">>,
    <<"p","a","y","m","e","n","t">>,
    <<"t","r","a","n","s","f","e","r">>,
    <<"r","e","f","u","n","d">>,
    <<"u","p","i">>,
    <<"c","r","e","d","i","t">>,
    <<"d","e","b","i","t">> >>
action_signals ==
  << <<"r","e","s","t","o","r","e">>,
    <<"r","e","a","c","t","i","v","a","t","e">>,
    <<"v","e","r","i","f","y">>,
    <<"c","o","n","f","i","r","m">>,
    <<"s","u","b","m","i","t">>,
    <<"u","p","d","a","t","e">>,
    <<"c","l","i","c","k">>,
    <<"l","o","g","i","n">>,
    <<"r","e","s","p","o","n","d">> >>
reward_signals ==
  << <<"p","r","i","z","e">>,
    <<"r","e","w","a","r","d">>,
    <<"l","o","t","t","e","r","y">>,
    <<"c","a","s","h","b","a","c","k">>,
    <<"f","r","e","e">>,
    <<"o","f","f","e","r">>,
    <<"w","o","n">>,
    <<"c","l","a","i","m">>,
    <<"b","o","n","u","s">> >>

\* contains_link: re.search(r"https?://", text) on the text as it is.
contains_link(text) == search(LinkPattern, text)

scam_signal_score(text) ==
  LET text_lower == lower(text)
  IN  (IF _contains(urgency_signals, text_lower) THEN 2 ELSE 0)
    + (IF _contains(financial_signals, text_lower) THEN 2 ELSE 0)
    + (IF _contains(action_signals, text_lower) THEN 1 ELSE 0)
    + (IF _contains(reward_signals, text_lower) THEN 2 ELSE 0)
    + (IF contains_link(text) THEN 3 ELSE 0)

\* The tiers of conversation_is_scam.
HighTier == 4
MediumTier == 2

\* What the provider does with one chat request: it answers with a content,
\* or the request fails (an exception, a timeout).
Scam == <<"S","C","A","M">>
AiOutcomes ==
  { [asked |-> TRUE, ok |-> TRUE,  content |-> <<"S","C","A","M">>],
    [asked |-> TRUE, ok |-> TRUE,  content |-> <<"N","O","T","_","S","C","A","M">>],
    [asked |-> TRUE, ok |-> TRUE,  content |-> <<" ","s","c","a","m","\n">>],
    [asked |-> TRUE, ok |-> TRUE,  content |-> <<"N","o","t","_","S","c","a","m">>],
    [asked |-> TRUE, ok |-> FALSE, content |-> << >>] }
NoAnswer == [asked |-> FALSE, ok |-> FALSE, content |-> << >>]

\* _groq_chat: the stripped content of the answer, "" without a client or
\* when the request fails.
_groq_chat(client, outcome) ==
  IF client = NoClient THEN << >>
  ELSE IF outcome.ok THEN strip(outcome.content) ELSE << >>

\* ai_is_scam: "SCAM" in result, result the answer in upper case.
ai_is_scam(available, client, outcome) ==
  IF ~available \/ client = NoClient THEN FALSE
  ELSE In(Scam, upper(_groq_chat(client, outcome)))

\* Whether some scammer message of the history scores in the medium tier.
history_pattern(hist) ==
  \E k \in 1..Len(hist) :
    hist[k].sender = "scammer" /\ scam_signal_score(hist[k].text) >= MediumTier

conversation_is_scam(current_text, hist, available, client, outcome) ==
  LET score == scam_signal_score(current_text)
  IN  IF score >= HighTier THEN TRUE
      ELSE IF score >= MediumTier
           THEN IF history_pattern(hist) THEN TRUE
                ELSE ai_is_scam(available, client, outcome)
           ELSE FALSE

\* Whether conversation_is_scam sends a request to the provider.
provider_called(current_text, hist, available, client) ==
  LET score == scam_signal_score(current_text)
  IN  /\ score < HighTier
      /\ score >= MediumTier
      /\ ~history_pattern(hist)
      /\ available
      /\ client # NoClient

\* Nothing yet: no response, no request in hand, no reply, no extraction.
NoResponse == [none |-> TRUE]
Idle == [none |-> TRUE]
NoReply == [none |-> TRUE]
NoExtraction == [none |-> TRUE]

(***************************************************************************)
(* utils/callback.py: send_callback_async and the delivery threads.        *)
(***************************************************************************)
\* None, as a session id or as the value of a missing key.
NoSid == "None"

\* The truth value Python gives a session id: None and "" are false.
Truthy(sid) == sid # NoSid /\ sid # ""

\* sid = session_id or payload.get("sessionId")
sid_of(session_id, payload) ==
  IF Truthy(session_id) THEN session_id ELSE payload.sessionId

\* The test of line 20: the call returns False at once.
already_sent(sent, sid) == Truthy(sid) /\ sid \in sent

\* Lines 22-23: the id joins the set.
mark_sent(sent, sid) == IF Truthy(sid) THEN sent \cup {sid} ELSE sent

\* A slip: the id is tested but never added.
send_callback_async_no_add(sent, session_id, payload) ==
  LET sid == sid_of(session_id, payload)
  IN  IF already_sent(sent, sid)
      THEN [returned |-> FALSE, sent |-> sent, started |-> FALSE, sid |-> sid]
      ELSE [returned |-> TRUE, sent |-> sent, started |-> TRUE, sid |-> sid]

\* send_callback_async run without interruption: what it returns, the set
\* afterwards, and whether it started a delivery thread.
send_callback_async(sent, session_id, payload) ==
  LET sid == sid_of(session_id, payload)
  IN  IF already_sent(sent, sid)
      THEN [returned |-> FALSE, sent |-> sent, started |-> FALSE, sid |-> sid]
      ELSE [returned |-> TRUE, sent |-> mark_sent(sent, sid), started |-> TRUE,
            sid |-> sid]

\* What the caller may pass: a session id or None or "", and a payload
\* with or without a sessionId.
SessionIds == {NoSid, "", "s1", "s2"}
Payloads == { [sessionId |-> NoSid], [sessionId |-> "s1"] }

\* The states of a delivery thread: requests.post is under way, it returned
\* a response (any status), or it raised (connection error, timeout).
Pending == "pending"
DeliveryOutcomes == {"posted", "failed"}

\* The request threads, and where each is in send_callback_async.
MaxThreads == 2
Threads == 1..MaxThreads
Outside == [pc |-> "outside", sid |-> NoSid, returned |-> FALSE]

\* How many calls a run of sequential calls makes.
MaxCalls == 4


(***************************************************************************)
(* agents/response_agent.py: ResponseAgent.  A reply is text; a template   *)
(* is chosen by random.choice, so a call has a set of possible results.    *)
(* The character "<emdash>" stands for the dash U+2014 of the templates.   *)
(***************************************************************************)
\* self.intents
intents ==
  (0 :> "confused and worried") @@ (1 :> "needs explanation") @@ (2 :> "suspicious but polite") @@ (3 :> "seeking confirmation") @@ (4 :> "asking for guidance") @@ (5 :> "requesting more details") @@ (6 :> "expressing concern") @@ (7 :> "asking for verification")

\* self.templates
templates ==
  ("confused and worried" :>
     << <<"I","'","m"," ","c","o","n","f","u","s","e","d"," ","a","n","d"," ","w","o","r","r","i","e","d","<emdash>","w","h","a","t"," ","d","o","e","s"," ","t","h","i","s"," ","m","e","a","n","?">>,
        <<"T","h","i","s"," ","i","s"," ","w","o","r","r","y","i","n","g","."," ","C","a","n"," ","y","o","u"," ","e","x","p","l","a","i","n"," ","w","h","a","t","'","s"," ","h","a","p","p","e","n","i","n","g","?">>,
        <<"I","'","m"," ","a"," ","b","i","t"," ","c","o","n","c","e","r","n","e","d","."," ","W","h","a","t"," ","e","x","a","c","t","l","y"," ","d","o"," ","y","o","u"," ","n","e","e","d"," ","f","r","o","m"," ","m","e","?">> >>)
  @@
  ("needs explanation" :>
     << <<"C","a","n"," ","y","o","u"," ","e","x","p","l","a","i","n"," ","t","h","i","s"," ","m","o","r","e"," ","c","l","e","a","r","l","y","?">>,
        <<"I"," ","d","i","d","n","'","t"," ","g","e","t"," ","t","h","a","t","."," ","P","l","e","a","s","e"," ","e","x","p","l","a","i","n"," ","i","n"," ","s","i","m","p","l","e"," ","t","e","r","m","s",".">>,
        <<"W","h","a","t"," ","e","x","a","c","t","l","y"," ","d","o"," ","y","o","u"," ","w","a","n","t"," ","m","e"," ","t","o"," ","d","o","?">> >>)
  @@
  ("suspicious but polite" :>
     << <<"T","h","i","s"," ","s","o","u","n","d","s"," ","a"," ","b","i","t"," ","s","u","s","p","i","c","i","o","u","s",";"," ","c","a","n"," ","y","o","u"," ","c","l","a","r","i","f","y"," ","w","h","y","?">>,
        <<"I","'","m"," ","t","r","y","i","n","g"," ","t","o"," ","u","n","d","e","r","s","t","a","n","d","<emdash>","w","h","y"," ","i","s"," ","t","h","i","s"," ","r","e","q","u","i","r","e","d","?">>,
        <<"O","k","a","y",","," ","b","u","t"," ","I"," ","n","e","e","d"," ","m","o","r","e"," ","d","e","t","a","i","l"," ","b","e","f","o","r","e"," ","I"," ","p","r","o","c","e","e","d",".">> >>)
  @@
  ("seeking confirmation" :>
     << <<"I","s"," ","t","h","i","s"," ","r","e","a","l","l","y"," ","f","r","o","m"," ","t","h","e"," ","b","a","n","k","?">>,
        <<"H","o","w"," ","c","a","n"," ","I"," ","k","n","o","w"," ","t","h","i","s"," ","i","s"," ","l","e","g","i","t","i","m","a","t","e","?">>,
        <<"I","s"," ","m","y"," ","a","c","c","o","u","n","t"," ","a","c","t","u","a","l","l","y"," ","a","f","f","e","c","t","e","d","?">> >>)
  @@
  ("asking for guidance" :>
     << <<"W","h","a","t"," ","s","h","o","u","l","d"," ","I"," ","d","o"," ","n","e","x","t","?">>,
        <<"P","l","e","a","s","e"," ","g","u","i","d","e"," ","m","e"," ","s","t","e","p"," ","b","y"," ","s","t","e","p",".">>,
        <<"I","'","m"," ","n","o","t"," ","s","u","r","e"," ","w","h","a","t"," ","t","o"," ","d","o","<emdash>","c","a","n"," ","y","o","u"," ","g","u","i","d","e"," ","m","e","?">> >>)
  @@
  ("requesting more details" :>
     << <<"C","a","n"," ","y","o","u"," ","s","h","a","r","e"," ","t","h","e"," ","e","x","a","c","t"," ","s","t","e","p","s"," ","y","o","u"," ","w","a","n","t"," ","m","e"," ","t","o"," ","f","o","l","l","o","w","?">>,
        <<"W","h","a","t"," ","d","e","t","a","i","l","s"," ","d","o"," ","y","o","u"," ","n","e","e","d"," ","f","r","o","m"," ","m","e","?">>,
        <<"W","h","i","c","h"," ","i","n","f","o","r","m","a","t","i","o","n"," ","d","o"," ","y","o","u"," ","e","x","p","e","c","t"," ","m","e"," ","t","o"," ","p","r","o","v","i","d","e","?">> >>)
  @@
  ("expressing concern" :>
     << <<"I","'","m"," ","c","o","n","c","e","r","n","e","d","<emdash>","w","h","y"," ","i","s"," ","t","h","i","s"," ","s","o"," ","u","r","g","e","n","t","?">>,
        <<"T","h","i","s"," ","f","e","e","l","s"," ","r","i","s","k","y","."," ","C","a","n"," ","y","o","u"," ","r","e","a","s","s","u","r","e"," ","m","e","?">>,
        <<"I","'","m"," ","w","o","r","r","i","e","d"," ","a","b","o","u","t"," ","s","h","a","r","i","n","g"," ","a","n","y","t","h","i","n","g"," ","w","i","t","h","o","u","t"," ","p","r","o","o","f",".">> >>)
  @@
  ("asking for verification" :>
     << <<"H","o","w"," ","d","o"," ","I"," ","v","e","r","i","f","y"," ","y","o","u"," ","a","r","e"," ","f","r","o","m"," ","t","h","e"," ","b","a","n","k","?">>,
        <<"D","o"," ","y","o","u"," ","h","a","v","e"," ","a","n"," ","o","f","f","i","c","i","a","l"," ","c","o","n","t","a","c","t"," ","I"," ","c","a","n"," ","c","a","l","l","?">>,
        <<"C","a","n"," ","y","o","u"," ","p","r","o","v","e"," ","t","h","i","s"," ","r","e","q","u","e","s","t"," ","i","s"," ","g","e","n","u","i","n","e","?">> >>)

\* The intent of a depth that has none, and of an intent that has no templates.
DefaultIntent == "asking for guidance"

\* max(self.intents): the largest depth the table defines.
max_defined_depth == CHOOSE k \in DOMAIN intents : \A j \in DOMAIN intents : j <= k

\* A slip: the depth is looked up as it is, so that a depth past the table
\* gets the default intent.
intent_for_depth_unclamped(depth) ==
  IF depth \in DOMAIN intents THEN intents[depth] ELSE DefaultIntent

\* self.intents.get(min(depth, max(self.intents)), "asking for guidance")
intent_for_depth(depth) ==
  LET d == Min(depth, max_defined_depth)
  IN  IF d \in DOMAIN intents THEN intents[d] ELSE DefaultIntent

\* reply.split("\n")[0]
first_line(text) ==
  IF \E i \in 1..Len(text) : text[i] = "\n"
  THEN SubSeq(text, 1, (CHOOSE i \in 1..Len(text) :
                          text[i] = "\n" /\ \A j \in 1..(i-1) : text[j] # "\n") - 1)
  ELSE text

\* re.sub(r'[\"*]', "", reply)
without_marks(text) == SelectSeq(text, LAMBDA c : c \notin {"\"", "*"})

\* str.split(): the words of the text, separated by runs of whitespace.
RECURSIVE split(_)
split(text) ==
  LET t == strip(text)
  IN  IF t = << >> THEN << >>
      ELSE IF \E i \in 1..Len(t) : t[i] \in Whitespace
      THEN LET cut == CHOOSE i \in 1..Len(t) :
                        t[i] \in Whitespace /\ \A j \in 1..(i-1) : t[j] \notin Whitespace
           IN  <<SubSeq(t, 1, cut - 1)>> \o split(SubSeq(t, cut + 1, Len(t)))
      ELSE <<t>>

\* The longest reply, in words, that _clean and _clean_reply let through.
MaxWords == 18
AppMaxWords == 15

\* The shortest provider reply that is used.
MinReplyLen == 3

\* The cleaning of a provider reply, cut to the given number of words.
clean_to(text, most) ==
  LET line  == without_marks(strip(first_line(text)))
      words == split(line)
  IN  IF Len(words) > most THEN join(SubSeq(words, 1, most)) ELSE line

\* ResponseAgent._clean
_clean(text) == clean_to(text, MaxWords)

\* What the provider does when asked for a reply: it raises (no network, a
\* timeout, a response without choices), or it answers with a content, which
\* may be None or empty (both are the empty text after `or ""`).
ReplyRaises == [asked |-> TRUE, ok |-> FALSE, content |-> << >>]
ReplyEmpty == [asked |-> TRUE, ok |-> TRUE, content |-> << >>]
ReplyBlank == [asked |-> TRUE, ok |-> TRUE, content |-> <<" ", "\n", " ">>]
ReplyShort == [asked |-> TRUE, ok |-> TRUE, content |-> <<"o", "k">>]
ReplyMarks == [asked |-> TRUE, ok |-> TRUE, content |-> <<"\"", "*", "o", "k", "*", "\"">>]
ReplyGood == [asked |-> TRUE, ok |-> TRUE, content |->
  <<"I","s"," ","t","h","i","s"," ","r","e","a","l","l","y"," ","f","r","o","m"," ","m","y"," ","b","a","n","k","?","\n","P","l","e","a","s","e"," ","r","e","p","l","y",".">>]
ReplyLong == [asked |-> TRUE, ok |-> TRUE, content |->
  <<"w","h","y"," ","w","h","y"," ","w","h","y"," ","w","h","y"," ","w","h","y"," ","w","h","y"," ","w","h","y"," ","w","h","y"," ","w","h","y"," ","w","h","y"," ","w","h","y"," ","w","h","y"," ","w","h","y"," ","w","h","y"," ","w","h","y"," ","w","h","y"," ","w","h","y"," ","w","h","y"," ","w","h","y"," ","w","h","y">>]
ReplyQuotedBlank == [asked |-> TRUE, ok |-> TRUE, content |-> <<"\"", " ", " ", " ", "\"">>]
ReplyOutcomes ==
  {ReplyRaises, ReplyEmpty, ReplyBlank, ReplyShort, ReplyMarks, ReplyGood, ReplyLong,
   ReplyQuotedBlank}

\* ResponseAgent._groq_reply: "" without a client or when the call raises.
_groq_reply(the_client, intent, outcome) ==
  IF the_client = NoClient THEN << >>
  ELSE IF outcome.ok THEN _clean(outcome.content) ELSE << >>

\* [o for o in options if a in o.lower() or b in o.lower()]
preferred(options, words) ==
  SelectSeq(options, LAMBDA o : \E w \in words : In(w, lower(o)))

Verify == <<"v","e","r","i","f","y">>
Confirm == <<"c","o","n","f","i","r","m">>
Upi == <<"u","p","i">>
Pay == <<"p","a","y">>
Step == <<"s","t","e","p">>
Guide == <<"g","u","i","d","e">>

\* A slip: the last message is not looked at.
template_options_no_preference(intent, last_scammer_text) ==
  IF intent \in DOMAIN templates THEN templates[intent]
  ELSE templates[DefaultIntent]

\* A slip: a filter that keeps nothing leaves no option.
template_options_no_fallback(intent, last_scammer_text) ==
  LET text_l == lower(last_scammer_text)
      all    == IF intent \in DOMAIN templates THEN templates[intent]
                ELSE templates[DefaultIntent]
      first  == IF In(Verify, text_l) \/ In(Confirm, text_l)
                THEN preferred(all, {Verify, Confirm}) ELSE all
  IN  IF In(Upi, text_l) \/ In(Pay, text_l)
      THEN preferred(first, {Step, Guide}) ELSE first

\* The options of ResponseAgent._template_reply, from which it chooses.
template_options(intent, last_scammer_text) ==
  LET text_l == lower(last_scammer_text)
      all    == IF intent \in DOMAIN templates THEN templates[intent]
                ELSE templates[DefaultIntent]
      keep(filtered, options) == IF filtered # << >> THEN filtered ELSE options
      first  == IF In(Verify, text_l) \/ In(Confirm, text_l)
                THEN keep(preferred(all, {Verify, Confirm}), all) ELSE all
  IN  IF In(Upi, text_l) \/ In(Pay, text_l)
      THEN keep(preferred(first, {Step, Guide}), first) ELSE first

\* What a call returns: a text, or an exception raised to the caller.
Returned(text) == [raised |-> FALSE, text |-> text]
Raised == [raised |-> TRUE, text |-> << >>]

\* random.choice(options): any of them; IndexError if there is none.
choice(options) ==
  IF options = << >> THEN {Raised}
  ELSE {Returned(options[k]) : k \in 1..Len(options)}

\* ResponseAgent._template_reply: its possible results.
_template_reply(intent, last_scammer_text) ==
  choice(template_options(intent, last_scammer_text))

\* The fixed reply of generate_reply to a message that is no scam.
BenignReply ==
  <<"T","h","a","n","k","s"," ","f","o","r"," ","t","h","e"," ","u","p","d","a","t","e",".">>

\* Whether generate_reply calls the provider.
agent_asks(the_client, is_scam) == is_scam /\ the_client # NoClient

\* A slip: the verdict is not looked at.
generate_reply_whatever_verdict(the_client, is_scam, conversation_depth, last_scammer_text, outcome) ==
  LET intent == intent_for_depth(conversation_depth)
      answer == _groq_reply(the_client, intent, outcome)
  IN  IF answer # << >> /\ Len(answer) >= MinReplyLen
      THEN {Returned(answer)}
      ELSE _template_reply(intent, last_scammer_text)

\* ResponseAgent.generate_reply: its possible results.
generate_reply(the_client, is_scam, conversation_depth, last_scammer_text, outcome) ==
  IF ~is_scam THEN {Returned(BenignReply)}
  ELSE LET intent == intent_for_depth(conversation_depth)
           answer == _groq_reply(the_client, intent, outcome)
       IN  IF answer # << >> /\ Len(answer) >= MinReplyLen
           THEN {Returned(answer)}
           ELSE _template_reply(intent, last_scammer_text)

(***************************************************************************)
(* app.py: agent_reply, ai_agent_reply and the template fallback.          *)
(***************************************************************************)
\* _TEMPLATES
_TEMPLATES ==
  ("confused and worried" :>
     << <<"I","'","m"," ","c","o","n","f","u","s","e","d"," ","a","n","d"," ","w","o","r","r","i","e","d",","," ","w","h","a","t"," ","d","o","e","s"," ","t","h","i","s"," ","m","e","a","n","?">>,
        <<"T","h","i","s"," ","i","s"," ","w","o","r","r","y","i","n","g","."," ","C","a","n"," ","y","o","u"," ","e","x","p","l","a","i","n"," ","w","h","a","t","'","s"," ","g","o","i","n","g"," ","o","n","?">>,
        <<"I","'","m"," ","a"," ","b","i","t"," ","w","o","r","r","i","e","d","."," ","W","h","a","t"," ","e","x","a","c","t","l","y"," ","d","o"," ","y","o","u"," ","m","e","a","n","?">> >>)
  @@
  ("needs explanation" :>
     << <<"C","a","n"," ","y","o","u"," ","e","x","p","l","a","i","n"," ","t","h","i","s"," ","m","o","r","e"," ","c","l","e","a","r","l","y","?">>,
        <<"I"," ","d","i","d","n","'","t"," ","g","e","t"," ","t","h","a","t","."," ","C","o","u","l","d"," ","y","o","u"," ","e","x","p","l","a","i","n"," ","i","n"," ","s","i","m","p","l","e"," ","t","e","r","m","s","?">>,
        <<"C","a","n"," ","y","o","u"," ","t","e","l","l"," ","m","e"," ","m","o","r","e"," ","a","b","o","u","t"," ","w","h","a","t"," ","I"," ","n","e","e","d"," ","t","o"," ","d","o","?">> >>)
  @@
  ("suspicious but polite" :>
     << <<"T","h","i","s"," ","s","o","u","n","d","s"," ","a"," ","b","i","t"," ","s","u","s","p","i","c","i","o","u","s",","," ","b","u","t"," ","l","e","t"," ","m","e"," ","u","n","d","e","r","s","t","a","n","d"," ","b","e","t","t","e","r",".">>,
        <<"I"," ","w","a","n","t"," ","t","o"," ","u","n","d","e","r","s","t","a","n","d","."," ","C","a","n"," ","y","o","u"," ","c","l","a","r","i","f","y"," ","t","h","e"," ","s","t","e","p","s","?">>,
        <<"O","k","a","y",","," ","b","u","t"," ","I"," ","n","e","e","d"," ","a"," ","b","i","t"," ","m","o","r","e"," ","d","e","t","a","i","l"," ","b","e","f","o","r","e"," ","I"," ","d","o"," ","a","n","y","t","h","i","n","g",".">> >>)
  @@
  ("seeking confirmation" :>
     << <<"I","s"," ","t","h","i","s"," ","r","e","a","l","l","y"," ","h","a","p","p","e","n","i","n","g"," ","t","o"," ","m","y"," ","a","c","c","o","u","n","t","?">>,
        <<"A","r","e"," ","y","o","u"," ","s","u","r","e"," ","t","h","i","s"," ","i","s"," ","f","r","o","m"," ","t","h","e"," ","b","a","n","k","?">>,
        <<"H","o","w"," ","d","o"," ","I"," ","k","n","o","w"," ","t","h","i","s"," ","i","s"," ","l","e","g","i","t","i","m","a","t","e","?">> >>)
  @@
  ("asking for guidance" :>
     << <<"W","h","a","t"," ","s","h","o","u","l","d"," ","I"," ","d","o"," ","n","o","w","?">>,
        <<"W","h","a","t"," ","a","r","e"," ","t","h","e"," ","e","x","a","c","t"," ","s","t","e","p","s"," ","I"," ","n","e","e","d"," ","t","o"," ","f","o","l","l","o","w","?">>,
        <<"I","'","m"," ","n","o","t"," ","s","u","r","e"," ","w","h","a","t"," ","t","o"," ","d","o"," ","n","e","x","t","."," ","C","a","n"," ","y","o","u"," ","g","u","i","d","e"," ","m","e","?">> >>)

\* intents of agent_reply
app_intents ==
  (0 :> "confused and worried") @@ (1 :> "needs explanation") @@ (2 :> "suspicious but polite") @@ (3 :> "seeking confirmation") @@ (4 :> "asking for guidance")

\* The largest depth of agent_reply's table: min(conversation_depth, 4).
AppMaxDepth == 4

Share == <<"s","h","a","r","e">>
Do == <<"d","o">>
Explain == <<"e","x","p","l","a","i","n">>
Clarify == <<"c","l","a","r","i","f","y">>
Detail == <<"d","e","t","a","i","l">>

\* The options of app.py's _template_reply.
app_template_options(intent, last_scammer_text) ==
  LET text_lower == lower(last_scammer_text)
      all    == IF intent \in DOMAIN _TEMPLATES THEN _TEMPLATES[intent]
                ELSE _TEMPLATES[DefaultIntent]
      keep(prefer, options) == IF prefer # << >> THEN prefer ELSE options
      first  == IF In(Upi, text_lower) \/ In(Share, text_lower)
                THEN keep(preferred(all, {Step, Do, Guide}), all) ELSE all
  IN  IF In(Verify, text_lower) \/ In(Confirm, text_lower)
      THEN keep(preferred(first, {Explain, Clarify, Detail}), first) ELSE first

\* app.py's _template_reply: its possible results.
app_template_reply(intent, last_scammer_text) ==
  choice(app_template_options(intent, last_scammer_text))

\* _clean_reply of ai_agent_reply
_clean_reply(text) == clean_to(text, AppMaxWords)

\* Whether ai_agent_reply calls the provider.
app_asks(available, the_client, is_scam) ==
  is_scam /\ available /\ the_client # NoClient

\* ai_agent_reply: its possible results.
ai_agent_reply(available, the_client, intent, last_scammer_text, outcome) ==
  LET answer  == IF available /\ the_client # NoClient
                 THEN _groq_chat(the_client, outcome) ELSE << >>
      cleaned == IF answer # << >> /\ Len(answer) >= MinReplyLen
                 THEN _clean_reply(answer) ELSE << >>
  IN  IF cleaned # << >> THEN {Returned(cleaned)}
      ELSE app_template_reply(intent, last_scammer_text)

\* The fixed reply of agent_reply to a message that is no scam.
AppBenignReply ==
  <<"T","h","a","n","k","s"," ","f","o","r"," ","l","e","t","t","i","n","g"," ","m","e"," ","k","n","o","w",","," ","I"," ","a","p","p","r","e","c","i","a","t","e"," ","t","h","e"," ","i","n","f","o","r","m","a","t","i","o","n",".">>

\* agent_reply: its possible results.
agent_reply(available, the_client, is_scam, conversation_depth, last_scammer_text, outcome) ==
  IF ~is_scam THEN {Returned(AppBenignReply)}
  ELSE LET d      == Min(conversation_depth, AppMaxDepth)
           intent == IF d \in DOMAIN app_intents THEN app_intents[d] ELSE DefaultIntent
       IN  ai_agent_reply(available, the_client, intent, last_scammer_text, outcome)


(***************************************************************************)
(* Regular expressions (re.findall): the matches from left to right, each   *)
(* the first that backtracking finds (a repetition takes as many as it can  *)
(* and gives back one at a time; alternatives are tried in their order).    *)
(***************************************************************************)
\* \b as an item of a pattern, and [^\s] as a class.
WordBoundary == << [cls |-> {"<b>"}, lo |-> 0, hi |-> 0] >>
NonSpace == {"<nonspace>"}
Letters == {UpperChars[k] : k \in 1..Len(UpperChars)} \cup {LowerChars[k] : k \in 1..Len(LowerChars)}
WordChars == Letters \cup Digits \cup {"_"}

InClassOf(c, cls) ==
  IF cls = NonSpace THEN c \notin Whitespace ELSE InClass(c, cls)

\* Whether \b matches before position i: a word character on one side only.
AtBoundary(text, i) ==
  LET before == i > 1 /\ i - 1 <= Len(text) /\ text[i - 1] \in WordChars
      after  == i >= 1 /\ i <= Len(text) /\ text[i] \in WordChars
  IN  before # after

\* How many characters from position i on are in the class.
Run(cls, text, i) ==
  LET room == Len(text) - i + 1
  IN  CHOOSE n \in 0..room :
        /\ \A j \in 0..(n - 1) : InClassOf(text[i + j], cls)
        /\ n = room \/ ~InClassOf(text[i + n], cls)

\* The position after the match of items k.. of the pattern from position i,
\* or 0 if there is none; an item is tried with n repetitions, then n - 1, ...
RECURSIVE MatchEnd(_, _, _, _), TryCount(_, _, _, _, _)
TryCount(pat, k, text, i, n) ==
  IF n < pat[k].lo THEN 0
  ELSE LET e == MatchEnd(pat, k + 1, text, i + n)
       IN  IF e # 0 THEN e ELSE TryCount(pat, k, text, i, n - 1)
MatchEnd(pat, k, text, i) ==
  IF k > Len(pat) THEN i
  ELSE IF pat[k].cls = {"<b>"}
  THEN IF AtBoundary(text, i) THEN MatchEnd(pat, k + 1, text, i) ELSE 0
  ELSE LET run  == Run(pat[k].cls, text, i)
           most == IF pat[k].hi = Unbounded \/ pat[k].hi > run THEN run ELSE pat[k].hi
       IN  TryCount(pat, k, text, i, most)

\* The end of the first alternative that matches at position i, or 0.
FirstAlternative(alts, text, i) ==
  LET ends == [a \in 1..Len(alts) |-> MatchEnd(alts[a], 1, text, i)]
  IN  IF \E a \in 1..Len(alts) : ends[a] # 0
      THEN ends[CHOOSE a \in 1..Len(alts) :
                  ends[a] # 0 /\ \A b \in 1..(a - 1) : ends[b] = 0]
      ELSE 0

\* re.findall(alts, text): the matches that do not overlap, in order; the
\* search goes on from the end of each match (one further after an empty one).
RECURSIVE FindFrom(_, _, _)
FindFrom(alts, text, i) ==
  LET starts == {p \in i..(Len(text) + 1) : FirstAlternative(alts, text, p) # 0}
  IN  IF starts = {} THEN << >>
      ELSE LET p == CHOOSE s \in starts : \A q \in starts : s <= q
               e == FirstAlternative(alts, text, p)
           IN  IF e = p THEN <<<< >>>> \o FindFrom(alts, text, p + 1)
               ELSE <<SubSeq(text, p, e - 1)>> \o FindFrom(alts, text, e)
findall(alts, text) == FindFrom(alts, text, 1)

(***************************************************************************)
(* set(...) and sorted(...): strings are ordered character by character, by *)
(* code point (the characters of the texts, in the order of their codes).   *)
(***************************************************************************)
Ascii ==
  <<"\t","\n"," ","!","\"","#","$","%","&","'","(",")","*","+",",","-",".","/","0","1","2","3","4","5","6","7","8","9",":",";","<","=",">","?","@","A","B","C","D","E","F","G","H","I","J","K","L","M","N","O","P","Q","R","S","T","U","V","W","X","Y","Z","[","\\","]","^","_","a","b","c","d","e","f","g","h","i","j","k","l","m","n","o","p","q","r","s","t","u","v","w","x","y","z","{","|","}","~">>
CodeOf == [c \in {Ascii[k] : k \in 1..Len(Ascii)} |->
             CHOOSE k \in 1..Len(Ascii) : Ascii[k] = c]

\* a < b for Python strings
Before(a, b) ==
  \E k \in 1..(Min(Len(a), Len(b)) + 1) :
    /\ \A j \in 1..(k - 1) : a[j] = b[j]
    /\ \/ k > Len(a) /\ k <= Len(b)
       \/ k <= Len(a) /\ k <= Len(b) /\ CodeOf[a[k]] < CodeOf[b[k]]

\* set(items)
set(items) == {items[k] : k \in 1..Len(items)}

\* sorted(s) of a set of strings
RECURSIVE sorted(_)
sorted(s) ==
  IF s = {} THEN << >>
  ELSE LET least == CHOOSE x \in s : \A y \in s \ {x} : Before(x, y)
       IN  <<least>> \o sorted(s \ {least})

(***************************************************************************)
(* utils/intelligence.py: extract_intelligence.                            *)
(***************************************************************************)
\* A slip: every message of the history is collected, whoever sent it.
RECURSIVE collect_every_sender(_, _)
collect_every_sender(hist, current_message) ==
  IF hist = << >> THEN current_message
  ELSE collect_every_sender(SubSeq(hist, 1, Len(hist) - 1), current_message)
         \o <<" ">> \o hist[Len(hist)].text

\* _collect_text: the current message, then " " and the text of every
\* scammer message of the history.
RECURSIVE _collect_text(_, _)
_collect_text(hist, current_message) ==
  IF hist = << >> THEN current_message
  ELSE LET rest == SubSeq(hist, 1, Len(hist) - 1)
           last == hist[Len(hist)]
       IN  IF last.sender = "scammer"
           THEN _collect_text(rest, current_message) \o <<" ">> \o last.text
           ELSE _collect_text(rest, current_message)

AlphaNum == Letters \cup Digits

\* r"\b\d{4}-\d{4}-\d{4,5}\b|\b\d{12,18}\b"
BankAccountPattern ==
  << WordBoundary \o Rep(Digits, 4, 4) \o Lit(<<"-">>) \o Rep(Digits, 4, 4)
       \o Lit(<<"-">>) \o Rep(Digits, 4, 5) \o WordBoundary,
     WordBoundary \o Rep(Digits, 12, 18) \o WordBoundary >>

\* r"\b[a-zA-Z0-9._-]+@[a-zA-Z0-9.-]+\b"
UpiPattern ==
  << WordBoundary \o Rep(AlphaNum \cup {".", "_", "-"}, 1, Unbounded) \o Lit(<<"@">>)
       \o Rep(AlphaNum \cup {".", "-"}, 1, Unbounded) \o WordBoundary >>

\* r"https?://[^\s]+"
PhishingLinkPattern ==
  << Lit(<<"h","t","t","p">>) \o Rep({"s"}, 0, 1) \o Lit(<<":","/","/">>)
       \o Rep(NonSpace, 1, Unbounded) >>

\* r"\+?91[- ]?\d{10}|\b[6-9]\d{9}\b"
PhonePattern ==
  << Rep({"+"}, 0, 1) \o Lit(<<"9","1">>) \o Rep({"-", " "}, 0, 1) \o Rep(Digits, 10, 10),
     WordBoundary \o Rep({"6","7","8","9"}, 1, 1) \o Rep(Digits, 9, 9) \o WordBoundary >>

\* suspicious_keywords_list of utils/intelligence.py
suspicious_keywords_list ==
  << <<"u","r","g","e","n","t">>,
     <<"i","m","m","e","d","i","a","t","e","l","y">>,
     <<"b","l","o","c","k","e","d">>,
     <<"s","u","s","p","e","n","d","e","d">>,
     <<"d","e","a","c","t","i","v","a","t","e","d">>,
     <<"l","i","m","i","t","e","d">>,
     <<"u","n","u","s","u","a","l"," ","a","c","t","i","v","i","t","y">>,
     <<"v","e","r","i","f","y">>,
     <<"c","o","n","f","i","r","m">>,
     <<"u","p","d","a","t","e">>,
     <<"c","l","i","c","k">>,
     <<"l","o","g","i","n">>,
     <<"r","e","s","p","o","n","d">>,
     <<"u","p","i">>,
     <<"p","a","y","m","e","n","t">>,
     <<"t","r","a","n","s","f","e","r">>,
     <<"r","e","f","u","n","d">>,
     <<"r","e","w","a","r","d">>,
     <<"p","r","i","z","e">>,
     <<"l","o","t","t","e","r","y">> >>

\* [kw for kw in keywords if kw in text]
keywords_in(keywords, text) == SelectSeq(keywords, LAMBDA kw : In(kw, text))

\* extract_intelligence of utils/intelligence.py on the collected text.
intelligence_of(full_text) ==
  [ bankAccounts       |-> sorted(set(findall(BankAccountPattern, full_text))),
    upiIds             |-> sorted(set(findall(UpiPattern, full_text))),
    phishingLinks      |-> sorted(set(findall(PhishingLinkPattern, full_text))),
    phoneNumbers       |-> sorted(set(findall(PhonePattern, full_text))),
    suspiciousKeywords |-> sorted(set(keywords_in(suspicious_keywords_list,
                                                  lower(full_text)))) ]

\* extract_intelligence(history, current_message) of utils/intelligence.py
extract_intelligence(hist, current_message) ==
  intelligence_of(_collect_text(hist, current_message))

(***************************************************************************)
(* app.py: extract_intelligence.  list(set(...)) has no order of its own,   *)
(* so each result is kept as the set.                                      *)
(***************************************************************************)
\* r"\d{4}-\d{4}-\d{4}"
AppBankAccountPattern ==
  << Rep(Digits, 4, 4) \o Lit(<<"-">>) \o Rep(Digits, 4, 4) \o Lit(<<"-">>)
       \o Rep(Digits, 4, 4) >>

\* r"\+91\d{10}"
AppPhonePattern == << Lit(<<"+","9","1">>) \o Rep(Digits, 10, 10) >>

\* suspicious_keywords_list of app.py
app_suspicious_keywords_list ==
  << <<"u","r","g","e","n","t">>,
     <<"i","m","m","e","d","i","a","t","e","l","y">>,
     <<"w","i","t","h","i","n">>,
     <<"b","l","o","c","k","e","d">>,
     <<"s","u","s","p","e","n","d","e","d">>,
     <<"d","e","a","c","t","i","v","a","t","e","d">>,
     <<"l","i","m","i","t","e","d">>,
     <<"u","n","u","s","u","a","l"," ","a","c","t","i","v","i","t","y">>,
     <<"s","u","s","p","i","c","i","o","u","s">>,
     <<"d","i","s","r","u","p","t","i","o","n">>,
     <<"a","v","o","i","d">>,
     <<"r","e","s","t","o","r","e">>,
     <<"r","e","a","c","t","i","v","a","t","e">>,
     <<"v","e","r","i","f","y">>,
     <<"c","o","n","f","i","r","m">>,
     <<"s","u","b","m","i","t">>,
     <<"u","p","d","a","t","e">>,
     <<"c","l","i","c","k">>,
     <<"l","o","g","i","n">>,
     <<"r","e","s","p","o","n","d">>,
     <<"u","p","i">>,
     <<"b","a","n","k">>,
     <<"a","c","c","o","u","n","t">>,
     <<"p","a","y","m","e","n","t">>,
     <<"t","r","a","n","s","f","e","r">>,
     <<"r","e","f","u","n","d">>,
     <<"p","r","i","z","e">>,
     <<"r","e","w","a","r","d">>,
     <<"l","o","t","t","e","r","y">>,
     <<"c","a","s","h","b","a","c","k">>,
     <<"f","r","e","e">>,
     <<"o","f","f","e","r">>,
     <<"w","o","n">> >>

\* extract_intelligence(history, current_message) of app.py
app_extract_intelligence(hist, current_message) ==
  LET full_text == _collect_text(hist, current_message)
  IN  [ bankAccounts       |-> set(findall(AppBankAccountPattern, full_text)),
        upiIds             |-> set(findall(UpiPattern, full_text)),
        phishingLinks      |-> set(findall(PhishingLinkPattern, full_text)),
        phoneNumbers       |-> set(findall(AppPhonePattern, full_text)),
        suspiciousKeywords |-> set(keywords_in(app_suspicious_keywords_list, full_text)) ]

(***************************************************************************)
(* app.py: the endpoint /api/honeypot.                                      *)
(***************************************************************************)
\* What a request may be: without the API key, not JSON, JSON without a
\* "message", a "message" that is no object, or a message of a conversation.
RequestKinds == {"no key", "not json", "no message", "bad message", "message"}

\* The least totalMessagesExchanged for which the intelligence is extracted.
MinMessages == 4

InvalidKeyBody == [status |-> "error", message |-> "Invalid API key"]
ProbeBody ==
  [status |-> "success",
   message |-> "Honeypot API reachable and authenticated successfully"]
ErrorBody == [status |-> "error", message |-> "Internal server error"]
AgentNotes ==
  "Detected using tiered signal scoring and Groq semantic analysis. Agent engaged scammer and extracted actionable intelligence."

\* data.get("sessionId", "unknown")
session_of(sid) == IF sid = NoSid THEN "unknown" ELSE sid

\* A slip: the length of the conversation is not looked at.
callback_due_at_any_length(scam_detected, total_messages) == scam_detected

\* if scam_detected and total_messages >= 4
callback_due(scam_detected, total_messages) ==
  scam_detected /\ total_messages >= MinMessages

\* response_payload as first built (engagementDurationSeconds, a reading of
\* the clock, is left out).
response_payload(session_id, scam_detected, agent_response, hist) ==
  [status |-> "success",
   sessionId |-> session_id,
   scamDetected |-> scam_detected,
   engagementMetrics |-> [totalMessagesExchanged |-> Len(hist) + 1],
   agentReply |-> agent_response,
   historyCount |-> Len(hist)]

\* response_payload with "extractedIntelligence" and "agentNotes" set.
with_intelligence(payload, intelligence) ==
  [extractedIntelligence |-> intelligence, agentNotes |-> AgentNotes] @@ payload

\* The json of the post to the collector.
collector_json(session_id, total_messages, intelligence) ==
  [sessionId |-> session_id,
   scamDetected |-> TRUE,
   totalMessagesExchanged |-> total_messages,
   extractedIntelligence |-> intelligence,
   agentNotes |-> AgentNotes]

\* honeypot() up to its return or, if it posts to the collector, up to the
\* post: the status and the body it has computed, and the json of the post.
\* The set holds one result for each reply that random.choice may pick.
honeypot(kind, sid, message_text, hist, available, the_client, ai_outcome, reply_outcome) ==
  IF kind = "no key"
  THEN {[status |-> 401, body |-> InvalidKeyBody, post |-> FALSE]}
  ELSE IF kind \in {"not json", "no message"}
  THEN {[status |-> 200, body |-> ProbeBody, post |-> FALSE]}
  ELSE IF kind = "bad message"
  THEN {[status |-> 500, body |-> ErrorBody, post |-> FALSE]}
  ELSE
    LET session_id     == session_of(sid)
        scam_detected  == conversation_is_scam(message_text, hist, available,
                                               the_client, ai_outcome)
        total_messages == Len(hist) + 1
    IN  { IF r.raised
          THEN [status |-> 500, body |-> ErrorBody, post |-> FALSE]
          ELSE LET payload == response_payload(session_id, scam_detected, r.text, hist)
               IN  IF callback_due(scam_detected, total_messages)
                   THEN LET intelligence == app_extract_intelligence(hist, message_text)
                        IN  [status |-> 200,
                             body |-> with_intelligence(payload, intelligence),
                             post |-> TRUE,
                             json |-> collector_json(session_id, total_messages,
                                                     intelligence)]
                   ELSE [status |-> 200, body |-> payload, post |-> FALSE]
          : r \in agent_reply(available, the_client, scam_detected, Len(hist),
                              message_text, reply_outcome) }

(***************************************************************************)
(* models/scam_detector.py: the artifact file and ScamDetector().           *)
(***************************************************************************)
\* MODEL_VERSION, and the tag an artifact of an earlier release carries.
CurrentVersion == "v3"
OlderVersion == "v2"

\* joblib.dump writes the file where it stands, piece after piece.
ArtifactChunks == 2
AllChunks == 1..ArtifactChunks

\* MODEL_FILE: whether it exists, the pieces that are written, whether
\* these are pieces of a joblib dump at all, and the version it is tagged with.
Absent == [exists |-> FALSE, readable |-> FALSE, chunks |-> {}, version |-> ""]
Corrupt == [exists |-> TRUE, readable |-> FALSE, chunks |-> AllChunks, version |-> ""]
artifact(version) ==
  [exists |-> TRUE, readable |-> TRUE, chunks |-> AllChunks, version |-> version]
StoreStates == {Absent, Corrupt, artifact(OlderVersion), artifact(CurrentVersion)}

\* open(MODEL_FILE, "wb") of joblib.dump: the file is there and empty.
opened(file) ==
  [exists |-> TRUE, readable |-> TRUE, chunks |-> {}, version |-> CurrentVersion]

\* ... and the write of one piece at the writer's own position.
written(file, k) == [file EXCEPT !.chunks = @ \cup {k}]

\* joblib.load(MODEL_FILE): the artifact, or an exception for a file that is
\* no dump or is not written to its end.
joblib_load(file) ==
  IF file.readable /\ file.chunks = AllChunks
  THEN [ok |-> TRUE, version |-> file.version]
  ELSE [ok |-> FALSE, version |-> ""]

\* A slip: an exception of joblib.load is not caught.
load_attempt_uncaught(file) ==
  IF ~file.exists THEN "train"
  ELSE IF ~joblib_load(file).ok THEN "raised"
  ELSE IF joblib_load(file).version = CurrentVersion THEN "loaded" ELSE "train"

\* _load_or_train before _train_model: the artifact is taken if the file
\* exists, loads and carries the current version; anything else, an
\* exception of the load included, leads to _train_model.
load_attempt(file) ==
  IF file.exists /\ joblib_load(file).ok
       /\ joblib_load(file).version = CurrentVersion
  THEN "loaded" ELSE "train"

\* ScamDetector._train_model: fits the vectorizer and the forest and dumps
\* them; the dump raises if the file cannot be written.
_train_model(file, can_write, forest) ==
  [vectorizer |-> Fitted, model |-> forest,
   fitted  |-> TRUE,
   written |-> can_write,
   raised  |-> ~can_write,
   store   |-> IF can_write THEN artifact(CurrentVersion) ELSE file]

\* A slip: the artifact on file is never used.
always_train(file, can_write, forest) == _train_model(file, can_write, forest)

\* ScamDetector._load_or_train.
_load_or_train(file, can_write, forest) ==
  IF load_attempt(file) = "loaded"
  THEN [vectorizer |-> Fitted, model |-> forest,
        fitted |-> FALSE, written |-> FALSE, raised |-> FALSE, store |-> file]
  ELSE _train_model(file, can_write, forest)

\* The instances of ScamDetector that are constructed at the same time.
MaxInstances == 2
Instances == 1..MaxInstances

(***************************************************************************)
(* The detector, the app and their callers.                                *)
(***************************************************************************)

\* Before any call of the callback, the endpoint, the agent or the extractor.
InitCallback ==
  /\ _sent_sessions = {}
  /\ deliveries = << >>
  /\ calls = << >>
  /\ callers = [t \in Threads |-> Outside]

InitEndpoint ==
  /\ posts = << >>
  /\ response = NoResponse
  /\ handler = Idle
  /\ session = NoSid

InitAgent ==
  /\ agent_client = NoClient
  /\ reply = NoReply

InitExtract == extracted = NoExtraction

\* No ScamDetector() has run, and there is no artifact file.
NoLoaders == [i \in Instances |-> [pc |-> "outside", model |-> NoModel,
                                    vectorizer |-> NoVectorizer, offset |-> 0,
                                    found |-> "nothing"]]
InitStore ==
  /\ store = Absent
  /\ writable = TRUE
  /\ constructed = "no"
  /\ fits = 0 /\ writes = 0
  /\ loaders = NoLoaders

\* ScamDetector() has returned: the artifact file is there.  The fits and
\* the dumps are counted from here on.
InitConstructed ==
  /\ store = artifact(CurrentVersion)
  /\ writable = TRUE
  /\ constructed = "yes"
  /\ fits = 0 /\ writes = 0
  /\ loaders = NoLoaders

\* After ScamDetector(): the model and the vectorizer are set.
InitDetector ==
  /\ trained \in Forests
  /\ model = trained
  /\ vectorizer = Fitted
  /\ analysed = NoCall
  /\ result = NoResult
  /\ remembered = NoMemory
  /\ InitConstructed

\* After the import of app.py: the client is there and the provider counts
\* as available, or neither.
InitApp ==
  /\ \/ ai_available = FALSE /\ groq_client = NoClient
     \/ ai_available = TRUE  /\ groq_client = Client
  /\ request = NoCall
  /\ ai_answer = NoAnswer
  /\ verdict = FALSE

detectorVars == <<trained, model, vectorizer, analysed, result, remembered>>
appVars == <<ai_available, groq_client, request, ai_answer, verdict>>

\* The caller appends a message to the history of the session
\* (test_comprehensive.py: history.append).
Receive(entry, longest) ==
  /\ Len(history) < longest
  /\ history' = Append(history, entry)
  /\ UNCHANGED <<detectorVars, appVars, callbackVars, endpointVars, agentVars, extractVars, storeVars>>

\* The caller starts another session: an empty history.
NewSession ==
  /\ history # << >>
  /\ history' = << >>
  /\ UNCHANGED <<detectorVars, appVars, callbackVars, endpointVars, agentVars, extractVars, storeVars>>

\* A slip: every call fits the forest anew, and without the fixed seed the
\* fit yields another forest.
AnalyzeCall_refit(message_text) ==
  /\ model' = (model + 1) % Len(MlValues)
  /\ vectorizer' = Fitted
  /\ result' = analyze(model', message_text, history)
  /\ analysed' = [text |-> message_text, history |-> history, made |-> TRUE]
  /\ UNCHANGED <<trained, history, appVars, callbackVars, endpointVars, agentVars, extractVars, storeVars>>

\* What analyze gives its caller when it raises.
AnalyzeRaised == [raised |-> TRUE]

\* detector.analyze(message_text, history): the detector's side of the call.
\* The model is loaded or trained here only when it is missing, and only
\* past the safe short-circuit.
AnalyzeCall(message_text) ==
  LET text_l == lower(combined_text(message_text, history))
      lazy   == /\ ~safe_short_circuit(text_l)
                /\ (model = NoModel \/ vectorizer = NoVectorizer)
      loaded == IF lazy THEN _load_or_train(store, writable, trained)
                ELSE [vectorizer |-> vectorizer, model |-> model,
                      fitted |-> FALSE, written |-> FALSE, raised |-> FALSE,
                      store |-> store]
  IN  /\ constructed = "yes"
      /\ model' = loaded.model
      /\ vectorizer' = loaded.vectorizer
      /\ store' = loaded.store
      /\ fits' = IF loaded.fitted THEN fits + 1 ELSE fits
      /\ writes' = IF loaded.written THEN writes + 1 ELSE writes
      /\ result' = IF loaded.raised THEN AnalyzeRaised
                   ELSE analyze(loaded.model, message_text, history)
      /\ analysed' = [text |-> message_text, history |-> history, made |-> TRUE]
      /\ UNCHANGED <<trained, history, appVars, callbackVars, endpointVars, agentVars,
                     extractVars, writable, constructed, loaders>>

\* The caller notes on the call it keeps that a call with other arguments
\* followed it.
Analyze(message_text) ==
  /\ AnalyzeCall(message_text)
  /\ remembered' =
       IF /\ remembered.made
          /\ (remembered.text # message_text \/ remembered.history # history)
       THEN [remembered EXCEPT !.others = TRUE]
       ELSE remembered

\* The same call, whose arguments and result the caller keeps.
AnalyzeAndKeep(message_text) ==
  /\ AnalyzeCall(message_text)
  /\ remembered' = [text |-> message_text, history |-> history, made |-> TRUE,
                    others |-> FALSE, result |-> result']

\* conversation_is_scam(current_text, history) of app.py, with what the
\* provider does if it is asked.
Classify(current_text, outcome) ==
  /\ request' = [text |-> current_text, history |-> history, made |-> TRUE]
  /\ ai_answer' = IF provider_called(current_text, history, ai_available, groq_client)
                  THEN outcome ELSE NoAnswer
  /\ verdict' = conversation_is_scam(current_text, history,
                                     ai_available, groq_client, outcome)
  /\ UNCHANGED <<ai_available, groq_client, history, detectorVars,
                 callbackVars, endpointVars, agentVars, extractVars, storeVars>>

(***************************************************************************)
(* Spec: one detector, one session.  The caller builds a history, has a     *)
(* message analysed against it, and may ask again with the same arguments.  *)
(***************************************************************************)
Init ==
  /\ InitDetector
  /\ ai_available = FALSE /\ groq_client = NoClient
  /\ request = NoCall /\ ai_answer = NoAnswer /\ verdict = FALSE
  /\ history = << >>
  /\ InitCallback /\ InitEndpoint /\ InitAgent /\ InitExtract

Next ==
  \/ \E e \in HistoryEntries : ~analysed.made /\ Receive(e, MaxHist)
  \/ \E m \in Messages : ~analysed.made /\ Analyze(m)
  \/ analysed.made /\ Analyze(analysed.text)

Spec == Init /\ [][Next]_vars

(***************************************************************************)
(* SpecRepeat: one detector, many calls over several sessions; the caller   *)
(* keeps one call and compares the later ones with it.                      *)
(***************************************************************************)
RepeatMessages == {MsgOtp, MsgVerify}
RepeatEntries ==
  { [sender |-> "scammer", text |-> HistUpi],
    [sender |-> "user",    text |-> HistUser] }

NextRepeat ==
  \/ \E e \in RepeatEntries : Receive(e, MaxRepeatHist)
  \/ NewSession
  \/ \E m \in RepeatMessages : Analyze(m)
  \/ \E m \in RepeatMessages : AnalyzeAndKeep(m)

SpecRepeat == Init /\ [][NextRepeat]_vars

(***************************************************************************)
(* SpecConfidence: one detector, two calls; the caller keeps the result of  *)
(* the first and compares the second with it.                               *)
(***************************************************************************)
NextConfidence ==
  \/ \E m \in Messages : ~remembered.made /\ AnalyzeAndKeep(m)
  \/ \E m \in Messages : remembered.made /\ ~remembered.others /\ Analyze(m)

SpecConfidence == Init /\ [][NextConfidence]_vars

(***************************************************************************)
(* SpecApp: the endpoint's classifier on one conversation.                  *)
(***************************************************************************)
InitAppSpec ==
  /\ InitApp
  /\ trained = 0 /\ model = NoModel /\ vectorizer = NoVectorizer
  /\ analysed = NoCall /\ result = NoResult /\ remembered = NoMemory
  /\ history = << >>
  /\ InitStore
  /\ InitCallback /\ InitEndpoint /\ InitAgent /\ InitExtract

NextApp ==
  \/ \E e \in AppHistoryEntries : ~request.made /\ Receive(e, MaxHist)
  \/ \E m \in Messages :
        /\ ~request.made
        /\ IF provider_called(m, history, ai_available, groq_client)
           THEN \E o \in AiOutcomes : Classify(m, o)
           ELSE Classify(m, NoAnswer)

SpecApp == InitAppSpec /\ [][NextApp]_vars

(***************************************************************************)
(* SpecBoth: the same message and history given to the detector and to the *)
(* endpoint's classifier.                                                  *)
(***************************************************************************)
BothMessages == {MsgBlocked, MsgVerify}
MaxBothHist == 1

InitBoth ==
  /\ InitDetector /\ InitApp /\ history = << >>
  /\ InitCallback /\ InitEndpoint /\ InitAgent /\ InitExtract

NextBoth ==
  \/ \E e \in HistoryEntries :
        ~analysed.made /\ ~request.made /\ Receive(e, MaxBothHist)
  \/ \E m \in BothMessages : ~analysed.made /\ Analyze(m)
  \/ \E m \in BothMessages :
        /\ ~request.made
        /\ IF provider_called(m, history, ai_available, groq_client)
           THEN \E o \in AiOutcomes : Classify(m, o)
           ELSE Classify(m, NoAnswer)

SpecBoth == InitBoth /\ [][NextBoth]_vars

(***************************************************************************)
(* utils/callback.py: the calls and the delivery threads.                  *)
(***************************************************************************)
restOfCallback == <<detectorVars, appVars, history, endpointVars, agentVars, extractVars, storeVars>>

\* send_callback_async(url, payload, session_id), called and returned with
\* no other call in between.
SendCallbackAsync(session_id, payload) ==
  LET r == send_callback_async(_sent_sessions, session_id, payload)
  IN  /\ Len(calls) < MaxCalls
      /\ _sent_sessions' = r.sent
      /\ calls' = Append(calls, [sid |-> r.sid, returned |-> r.returned])
      /\ deliveries' =
           IF r.started
           THEN Append(deliveries, [sid |-> r.sid, call |-> Len(calls) + 1,
                                    state |-> Pending])
           ELSE deliveries
      /\ UNCHANGED <<callers, restOfCallback>>

\* _post_callback in its thread: the post returns or raises; either is
\* printed, and nothing else happens.
PostCallback(i, outcome) ==
  /\ i \in 1..Len(deliveries)
  /\ deliveries[i].state = Pending
  /\ deliveries' = [deliveries EXCEPT ![i].state = outcome]
  /\ UNCHANGED <<_sent_sessions, calls, callers, restOfCallback>>

\* A request thread enters send_callback_async: line 19.
ThreadCall(t, session_id, payload) ==
  /\ callers[t].pc = "outside"
  /\ callers' = [callers EXCEPT ![t] =
       [pc |-> "line20", sid |-> sid_of(session_id, payload), returned |-> FALSE]]
  /\ UNCHANGED <<_sent_sessions, deliveries, calls, restOfCallback>>

\* Lines 20-21: the membership test, and the return of False.
ThreadTest(t) ==
  /\ callers[t].pc = "line20"
  /\ IF already_sent(_sent_sessions, callers[t].sid)
     THEN /\ callers' = [callers EXCEPT ![t].pc = "returned", ![t].returned = FALSE]
          /\ calls' = Append(calls, [sid |-> callers[t].sid, returned |-> FALSE])
     ELSE /\ callers' = [callers EXCEPT ![t].pc = "line22"]
          /\ calls' = calls
  /\ UNCHANGED <<_sent_sessions, deliveries, restOfCallback>>

\* Lines 22-23: the insertion.
ThreadAdd(t) ==
  /\ callers[t].pc = "line22"
  /\ _sent_sessions' = mark_sent(_sent_sessions, callers[t].sid)
  /\ callers' = [callers EXCEPT ![t].pc = "line25"]
  /\ UNCHANGED <<deliveries, calls, restOfCallback>>

\* Lines 25-27: the delivery thread is started and True is returned.
ThreadStart(t) ==
  /\ callers[t].pc = "line25"
  /\ calls' = Append(calls, [sid |-> callers[t].sid, returned |-> TRUE])
  /\ deliveries' = Append(deliveries, [sid |-> callers[t].sid,
                                       call |-> Len(calls) + 1, state |-> Pending])
  /\ callers' = [callers EXCEPT ![t].pc = "returned", ![t].returned = TRUE]
  /\ UNCHANGED <<_sent_sessions, restOfCallback>>

InitCallbackSpec ==
  /\ InitStore
  /\ InitCallback /\ InitEndpoint /\ InitAgent /\ InitExtract
  /\ InitApp
  /\ ai_available = FALSE
  /\ trained = 0 /\ model = NoModel /\ vectorizer = NoVectorizer
  /\ analysed = NoCall /\ result = NoResult /\ remembered = NoMemory
  /\ history = << >>

(***************************************************************************)
(* SpecCallback: calls of send_callback_async one after the other, and the *)
(* deliveries they start.                                                  *)
(***************************************************************************)
NextCallback ==
  \/ \E s \in SessionIds, p \in Payloads : SendCallbackAsync(s, p)
  \/ \E i \in 1..Len(deliveries), o \in DeliveryOutcomes : PostCallback(i, o)

SpecCallback == InitCallbackSpec /\ [][NextCallback]_vars

(***************************************************************************)
(* SpecThreads: request threads inside send_callback_async at the same     *)
(* time; a thread may be switched out between any two of its lines.        *)
(***************************************************************************)
NextThreads ==
  \/ \E t \in Threads, s \in SessionIds, p \in Payloads : ThreadCall(t, s, p)
  \/ \E t \in Threads : ThreadTest(t)
  \/ \E t \in Threads : ThreadAdd(t)
  \/ \E t \in Threads : ThreadStart(t)
  \/ \E i \in 1..Len(deliveries), o \in DeliveryOutcomes : PostCallback(i, o)

SpecThreads == InitCallbackSpec /\ [][NextThreads]_vars

(***************************************************************************)
(* SpecAgent: a call of ResponseAgent.generate_reply or of app.py's        *)
(* agent_reply, with whatever the provider does when it is asked.          *)
(***************************************************************************)
\* A last scammer message that prefers templates twice over.
MsgConfirmUpi ==
  <<"C","o","n","f","i","r","m"," ","y","o","u","r"," ","U","P","I"," ","I","D"," ","n","o","w">>

\* The conversation depths of the calls: below the table, in it, past it.
MaxDepth == 9
Depths == (0 - 1)..MaxDepth \cup {100}
LastTexts == {<< >>, MsgVerify, HistUpi, MsgHello, MsgConfirmUpi}

restOfAgent == <<detectorVars, history, request, ai_answer, verdict,
                 callbackVars, endpointVars, extractVars, storeVars>>

\* agent.generate_reply(is_scam, conversation_depth, last_scammer_text)
GenerateReply(is_scam, depth, last, outcome) ==
  \E r \in generate_reply(agent_client, is_scam, depth, last, outcome) :
    /\ reply' = [fn |-> "generate_reply", is_scam |-> is_scam, depth |-> depth,
                 last |-> last,
                 outcome |-> IF agent_asks(agent_client, is_scam)
                             THEN outcome ELSE NoAnswer,
                 raised |-> r.raised, text |-> r.text]
    /\ UNCHANGED <<agent_client, ai_available, groq_client, restOfAgent>>

\* agent_reply(is_scam, conversation_depth, last_scammer_text) of app.py
AgentReply(is_scam, depth, last, outcome) ==
  \E r \in agent_reply(ai_available, groq_client, is_scam, depth, last, outcome) :
    /\ reply' = [fn |-> "agent_reply", is_scam |-> is_scam, depth |-> depth,
                 last |-> last,
                 outcome |-> IF app_asks(ai_available, groq_client, is_scam)
                             THEN outcome ELSE NoAnswer,
                 raised |-> r.raised, text |-> r.text]
    /\ UNCHANGED <<agent_client, ai_available, groq_client, restOfAgent>>

\* After ResponseAgent() and the import of app.py: each has its client, or
\* has none.
InitAgentSpec ==
  /\ agent_client \in {NoClient, Client}
  /\ reply = NoReply
  /\ InitApp
  /\ InitStore
  /\ InitCallback /\ InitEndpoint /\ InitExtract
  /\ trained = 0 /\ model = NoModel /\ vectorizer = NoVectorizer
  /\ analysed = NoCall /\ result = NoResult /\ remembered = NoMemory
  /\ history = << >>

NextAgent ==
  \/ \E s \in BOOLEAN, d \in Depths, t \in LastTexts :
        /\ reply = NoReply
        /\ IF agent_asks(agent_client, s)
           THEN \E o \in ReplyOutcomes : GenerateReply(s, d, t, o)
           ELSE GenerateReply(s, d, t, NoAnswer)
  \/ \E s \in BOOLEAN, d \in Depths, t \in LastTexts :
        /\ reply = NoReply
        /\ IF app_asks(ai_available, groq_client, s)
           THEN \E o \in ReplyOutcomes : AgentReply(s, d, t, o)
           ELSE AgentReply(s, d, t, NoAnswer)

SpecAgent == InitAgentSpec /\ [][NextAgent]_vars

(***************************************************************************)
(* Extraction of intelligence from a conversation.                          *)
(***************************************************************************)
\* The message of test_intelligence_extraction.
MsgIntel ==
  <<"S","e","n","d"," ","m","o","n","e","y"," ","t","o"," ","a","t","t","a","c","k","e","r","@","p","a","y","t","m","."," ","C","a","l","l"," ","+","9","1","9","8","7","6","5","4","3","2","1","0"," ","o","r"," ","v","i","s","i","t"," ","h","t","t","p","s",":","/","/","m","a","l","i","c","i","o","u","s","-","s","i","t","e",".","c","o","m","."," ","A","c","c","o","u","n","t"," ","1","2","3","4","-","5","6","7","8","-","9","0","1","2">>
\* The same four values, each between spaces and two of them twice.
MsgIntelPlain ==
  <<"p","a","y"," ","a","t","t","a","c","k","e","r","@","p","a","y","t","m"," ","o","r"," ","a","t","t","a","c","k","e","r","@","p","a","y","t","m"," ","o","n"," ","+","9","1","9","8","7","6","5","4","3","2","1","0"," ","s","e","e"," ","h","t","t","p","s",":","/","/","m","a","l","i","c","i","o","u","s","-","s","i","t","e",".","c","o","m"," ","a","c","c","o","u","n","t"," ","1","2","3","4","-","5","6","7","8","-","9","0","1","2"," ","o","r"," ","1","2","3","4","-","5","6","7","8","-","9","0","1","2">>
UpiValue ==
  <<"a","t","t","a","c","k","e","r","@","p","a","y","t","m">>
PhoneValue ==
  <<"+","9","1","9","8","7","6","5","4","3","2","1","0">>
LinkValue ==
  <<"h","t","t","p","s",":","/","/","m","a","l","i","c","i","o","u","s","-","s","i","t","e",".","c","o","m">>
BankValue ==
  <<"1","2","3","4","-","5","6","7","8","-","9","0","1","2">>
HistUpiValue ==
  <<"a","t","t","a","c","k","e","r","@","u","p","i">>
UserUpiValue ==
  <<"v","i","c","t","i","m","@","o","k","b","a","n","k">>
UserPhoneValue ==
  <<"+","9","1","9","1","2","3","4","5","6","7","8","9">>

ExtractMessages == {MsgIntel, MsgIntelPlain, MsgHello}

ExtractEntries ==
  { [sender |-> "scammer", text |->
      <<"S","e","n","d"," ","p","a","y","m","e","n","t"," ","t","o"," ","a","t","t","a","c","k","e","r","@","u","p","i"," ","i","m","m","e","d","i","a","t","e","l","y">>],
    [sender |-> "user", text |->
      <<"M","y"," ","U","P","I"," ","i","s"," ","v","i","c","t","i","m","@","o","k","b","a","n","k"," ","a","n","d"," ","m","y"," ","n","u","m","b","e","r"," ","i","s"," ","+","9","1","9","1","2","3","4","5","6","7","8","9">>],
    [sender |-> "user", text |->
      <<"W","h","a","t"," ","s","h","o","u","l","d"," ","I"," ","d","o","?">>] }

MaxExtractHist == 4

restOfExtract == <<detectorVars, appVars, history, callbackVars, endpointVars, agentVars,
                   storeVars>>

\* extract_intelligence(history, current_message) of utils/intelligence.py
ExtractIntelligence(current_message) ==
  /\ extracted' = [fn |-> "utils", history |-> history, message |-> current_message,
                   intelligence |-> extract_intelligence(history, current_message)]
  /\ UNCHANGED restOfExtract

\* extract_intelligence(history, current_message) of app.py
AppExtractIntelligence(current_message) ==
  /\ extracted' = [fn |-> "app", history |-> history, message |-> current_message,
                   intelligence |-> app_extract_intelligence(history, current_message)]
  /\ UNCHANGED restOfExtract

InitExtractSpec ==
  /\ InitExtract
  /\ ai_available = FALSE /\ groq_client = NoClient
  /\ request = NoCall /\ ai_answer = NoAnswer /\ verdict = FALSE
  /\ InitStore
  /\ InitCallback /\ InitEndpoint /\ InitAgent
  /\ trained = 0 /\ model = NoModel /\ vectorizer = NoVectorizer
  /\ analysed = NoCall /\ result = NoResult /\ remembered = NoMemory
  /\ history = << >>

NextExtract ==
  \/ \E e \in ExtractEntries : extracted = NoExtraction /\ Receive(e, MaxExtractHist)
  \/ \E m \in ExtractMessages : extracted = NoExtraction /\ ExtractIntelligence(m)
  \/ \E m \in ExtractMessages : extracted = NoExtraction /\ AppExtractIntelligence(m)

SpecExtract == InitExtractSpec /\ [][NextExtract]_vars

(***************************************************************************)
(* The endpoint and a client that holds a conversation with it.             *)
(***************************************************************************)
\* The messages of the conversation: the scammer's and the user's.
EndpointEntries ==
  { [sender |-> "scammer", text |-> MsgBlocked],
    [sender |-> "user",    text |-> MsgHello] }

\* The sessionId of a request: one that is given, or none.
EndpointSessions == {"s1", NoSid}

\* The longest conversation.
MaxTurns == 5

\* A request that carries no message.
NoEntry == [sender |-> "", text |-> << >>]

\* What the provider does when agent_reply asks it: it fails, or it replies.
EndpointReplyOutcomes == {ReplyRaises, ReplyGood}

restOfEndpoint == <<detectorVars, appVars, callbackVars, agentVars, extractVars, storeVars>>

\* A request to /api/honeypot, handled up to the return of honeypot() or, if
\* the collector is to be told, up to requests.post, which the handler then
\* waits for.
Honeypot(kind, sid, entry, ai_outcome, reply_outcome) ==
  /\ handler = Idle
  /\ response = NoResponse
  /\ Len(history) < MaxTurns
  /\ LET req == [kind |-> kind, sessionId |-> sid, message |-> entry]
     IN  \E r \in honeypot(kind, sid, entry.text, history, ai_available,
                           groq_client, ai_outcome, reply_outcome) :
           IF r.post
           THEN /\ posts' = Append(posts, [json |-> r.json, state |-> Pending])
                /\ handler' = [request |-> req, status |-> r.status, body |-> r.body]
                /\ response' = response
           ELSE /\ posts' = posts
                /\ handler' = handler
                /\ response' = [request |-> req, status |-> r.status, body |-> r.body]
  /\ UNCHANGED <<history, session, restOfEndpoint>>

\* requests.post returns or raises (a refused connection, a timeout after
\* five seconds): the exception is printed, and honeypot() returns what it
\* had computed.
PostReturns(outcome) ==
  /\ handler # Idle
  /\ posts' = [posts EXCEPT ![Len(posts)].state = outcome]
  /\ response' = [request |-> handler.request, status |-> handler.status,
                  body |-> handler.body]
  /\ handler' = Idle
  /\ UNCHANGED <<history, session, restOfEndpoint>>

\* The client reads the response; after a 200 to a message it appends the
\* message to the history it sends next (test_multi_turn_and_callback).
ClientTurn ==
  /\ response # NoResponse
  /\ response' = NoResponse
  /\ history' = IF response.status = 200 /\ response.request.kind = "message"
                THEN Append(history, response.request.message)
                ELSE history
  /\ UNCHANGED <<posts, handler, session, restOfEndpoint>>

InitEndpointSpec ==
  /\ posts = << >> /\ response = NoResponse /\ handler = Idle
  /\ session \in EndpointSessions
  /\ InitApp
  /\ InitStore
  /\ InitCallback /\ InitAgent /\ InitExtract
  /\ trained = 0 /\ model = NoModel /\ vectorizer = NoVectorizer
  /\ analysed = NoCall /\ result = NoResult /\ remembered = NoMemory
  /\ history = << >>

NextEndpoint ==
  \/ \E e \in EndpointEntries :
       \E ao \in IF provider_called(e.text, history, ai_available, groq_client)
                 THEN AiOutcomes ELSE {NoAnswer} :
         \E ro \in IF app_asks(ai_available, groq_client,
                               conversation_is_scam(e.text, history, ai_available,
                                                    groq_client, ao))
                   THEN EndpointReplyOutcomes ELSE {NoAnswer} :
           Honeypot("message", session, e, ao, ro)
  \/ \E k \in RequestKinds \ {"message"} :
       Honeypot(k, session, NoEntry, NoAnswer, NoAnswer)
  \/ \E o \in DeliveryOutcomes : PostReturns(o)
  \/ ClientTurn

SpecEndpoint == InitEndpointSpec /\ [][NextEndpoint]_vars

(***************************************************************************)
(* SpecArtifact: a process starts with some artifact file, constructs its   *)
(* detector and has messages analysed.                                      *)
(***************************************************************************)
restOfStore == <<history, appVars, callbackVars, endpointVars, agentVars, extractVars>>

\* ScamDetector(): _ensure_artifacts_dir and _load_or_train.  If the dump
\* raises, the constructor raises and the caller has no detector.
Construct ==
  LET r == _load_or_train(store, writable, trained)
  IN  /\ constructed = "no"
      /\ constructed' = IF r.raised THEN "raised" ELSE "yes"
      /\ model' = IF r.raised THEN NoModel ELSE r.model
      /\ vectorizer' = IF r.raised THEN NoVectorizer ELSE r.vectorizer
      /\ store' = r.store
      /\ fits' = IF r.fitted THEN fits + 1 ELSE fits
      /\ writes' = IF r.written THEN writes + 1 ELSE writes
      /\ UNCHANGED <<trained, analysed, result, remembered, writable, loaders,
                     restOfStore>>

InitArtifactSpec ==
  /\ trained \in Forests
  /\ model = NoModel /\ vectorizer = NoVectorizer
  /\ analysed = NoCall /\ result = NoResult /\ remembered = NoMemory
  /\ store \in StoreStates
  /\ writable \in BOOLEAN
  /\ constructed = "no"
  /\ fits = 0 /\ writes = 0
  /\ loaders = NoLoaders
  /\ ai_available = FALSE /\ groq_client = NoClient
  /\ request = NoCall /\ ai_answer = NoAnswer /\ verdict = FALSE
  /\ history = << >>
  /\ InitCallback /\ InitEndpoint /\ InitAgent /\ InitExtract

NextArtifact ==
  \/ Construct
  \/ \E m \in RepeatMessages : Analyze(m)

SpecArtifact == InitArtifactSpec /\ [][NextArtifact]_vars

(***************************************************************************)
(* SpecStart: several ScamDetector() calls run at the same time against     *)
(* one artifact file; a call may be switched out between any two of its      *)
(* accesses to the file.                                                    *)
(***************************************************************************)
restOfStart == <<detectorVars, writable, constructed, restOfStore>>

\* Another process, or another thread, calls ScamDetector().
StartAnother(i) ==
  /\ loaders[i].pc = "outside"
  /\ loaders' = [loaders EXCEPT ![i].pc = "start"]
  /\ UNCHANGED <<store, fits, writes, restOfStart>>

\* if MODEL_FILE.exists()
StartExists(i) ==
  /\ loaders[i].pc = "start"
  /\ loaders' = [loaders EXCEPT
                   ![i].pc = IF store.exists THEN "load" ELSE "train",
                   ![i].found = IF store.exists THEN "a file" ELSE "no file"]
  /\ UNCHANGED <<store, fits, writes, restOfStart>>

\* The file as joblib.load reads it: as it is, or, while another instance
\* is writing it, cut short at any point.
being_written == \E j \in Instances : loaders[j].pc = "write"
as_read ==
  {store} \cup
  (IF being_written
   THEN {[store EXCEPT !.chunks = 1..k] : k \in 0..(ArtifactChunks - 1)}
   ELSE {})

\* joblib.load and the test of the version, inside the try.
StartLoad(i) ==
  /\ loaders[i].pc = "load"
  /\ \E file \in as_read :
       loaders' =
         [loaders EXCEPT ![i] =
            IF load_attempt(file) = "loaded"
            THEN [pc |-> "done", model |-> trained, vectorizer |-> Fitted,
                  offset |-> 0, found |-> "the artifact"]
            ELSE [@ EXCEPT !.pc = load_attempt(file),
                           !.found = IF file.chunks # AllChunks
                                     THEN "a part" ELSE "another file"]]
  /\ UNCHANGED <<store, fits, writes, restOfStart>>

\* _train_model up to the dump: the vectorizer and the forest are fitted.
StartTrain(i) ==
  /\ loaders[i].pc = "train"
  /\ loaders' = [loaders EXCEPT ![i] =
                   [@ EXCEPT !.pc = "dump", !.model = trained,
                              !.vectorizer = Fitted]]
  /\ fits' = fits + 1
  /\ UNCHANGED <<store, writes, restOfStart>>

\* joblib.dump opens the file, which empties it.
StartDump(i) ==
  /\ loaders[i].pc = "dump"
  /\ store' = opened(store)
  /\ writes' = writes + 1
  /\ loaders' = [loaders EXCEPT ![i].pc = "write", ![i].offset = 1]
  /\ UNCHANGED <<fits, restOfStart>>

\* ... and writes its next piece; after the last one the constructor returns.
StartWrite(i) ==
  /\ loaders[i].pc = "write"
  /\ store' = written(store, loaders[i].offset)
  /\ loaders' = [loaders EXCEPT
                   ![i].offset = @ + 1,
                   ![i].pc = IF loaders[i].offset = ArtifactChunks
                             THEN "done" ELSE "write"]
  /\ UNCHANGED <<fits, writes, restOfStart>>

InitStartSpec ==
  /\ trained \in Forests
  /\ model = NoModel /\ vectorizer = NoVectorizer
  /\ analysed = NoCall /\ result = NoResult /\ remembered = NoMemory
  /\ store \in StoreStates
  /\ writable = TRUE
  /\ constructed = "no"
  /\ fits = 0 /\ writes = 0
  /\ loaders = [NoLoaders EXCEPT ![1].pc = "start"]
  /\ ai_available = FALSE /\ groq_client = NoClient
  /\ request = NoCall /\ ai_answer = NoAnswer /\ verdict = FALSE
  /\ history = << >>
  /\ InitCallback /\ InitEndpoint /\ InitAgent /\ InitExtract

NextStart ==
  \E i \in Instances :
    \/ StartAnother(i)
    \/ StartExists(i)
    \/ StartLoad(i)
    \/ StartTrain(i)
    \/ StartDump(i)
    \/ StartWrite(i)

SpecStart == InitStartSpec /\ [][NextStart]_vars

(***************************************************************************)
(* Arguments that are not what the signatures say.  A Python value is kept  *)
(* with its type: None, a number, a string, a list, a dict.                 *)
(***************************************************************************)
PyNone == [type |-> "NoneType"]
PyNumber == [type |-> "int"]
PyStr(text) == [type |-> "str", value |-> text]
PyList(items) == [type |-> "list", value |-> items]
\* A dict with a sender and, under "text", a value or nothing.
NoKey == [type |-> "missing"]
PyDict(sender, text) == [type |-> "dict", sender |-> sender, text |-> text]

\* history or []
or_empty(hist) == IF hist.type = "NoneType" THEN << >> ELSE hist.value
\* The text of None, as an f-string writes it.
NoneText == <<"N","o","n","e">>

\* m.get("text", "") of a dict: the value, or "" without the key.
get_text(m) == IF m.text.type = "missing" THEN PyStr(<< >>) ELSE m.text
\* The entry as the detector reads it, where it can be read.
as_entry(m, none_text) ==
  IF m.type # "dict" THEN [sender |-> "other", text |-> << >>]
  ELSE [sender |-> m.sender,
        text |-> IF get_text(m).type = "str" THEN get_text(m).value ELSE none_text]
as_history(items, none_text) == [i \in 1..Len(items) |-> as_entry(items[i], none_text)]

\* A slip: every argument is taken as well formed.
analyze_raises_never(message_text, hist) == FALSE

\* Lines 205-209 of analyze raise where history cannot be sliced, where one
\* of its last three entries has no get, where a scammer entry among them
\* has a text that join does not take, and where message_text has no strip.
analyze_raises(message_text, hist) ==
  \/ hist.type \notin {"NoneType", "list"}
  \/ \E i \in 1..Len(LastThree(or_empty(hist))) :
       LET m == LastThree(or_empty(hist))[i]
       IN  \/ m.type # "dict"
           \/ m.sender = "scammer" /\ get_text(m).type # "str"
  \/ message_text.type # "str"

\* detector.analyze(message_text, history) with any arguments.
analyze_given(forest, message_text, hist) ==
  IF analyze_raises(message_text, hist) THEN AnalyzeRaised
  ELSE analyze(forest, message_text.value, as_history(or_empty(hist), << >>))

\* extract_intelligence of utils/intelligence.py raises where history
\* cannot be iterated, where an entry has no get, and where the message is
\* neither a string nor None; a text of None is written out as "None".
extract_raises(hist, current_message) ==
  \/ hist.type \notin {"NoneType", "list"}
  \/ \E i \in 1..Len(or_empty(hist)) : or_empty(hist)[i].type # "dict"
  \/ current_message.type \notin {"NoneType", "str"}

extract_given(hist, current_message) ==
  IF extract_raises(hist, current_message) THEN [raised |-> TRUE]
  ELSE [raised |-> FALSE,
        intelligence |->
          extract_intelligence(as_history(or_empty(hist), NoneText),
                               IF current_message.type = "str"
                               THEN current_message.value ELSE << >>)]

(***************************************************************************)
(* SpecGiven: one call of the detector or of the extractor with arguments   *)
(* of any shape.                                                            *)
(***************************************************************************)
MaxGivenHist == 2
GivenMessages == {PyNone, PyNumber, PyStr(MsgVerify), PyStr(MsgHello)}
GivenEntries ==
  { PyDict("scammer", PyStr(HistUpi)),
    PyDict("scammer", NoKey),
    PyDict("scammer", PyNone),
    PyStr(HistUpi) }
GivenLists(n) == UNION {[1..k -> GivenEntries] : k \in 0..n}
GivenHistories == {PyNone, PyNumber} \cup {PyList(h) : h \in GivenLists(MaxGivenHist)}

AnalyzeGiven(message_text, hist) ==
  /\ ~analysed.made /\ extracted = NoExtraction
  /\ analysed' = [text |-> message_text, history |-> hist, made |-> TRUE]
  /\ result' = analyze_given(model, message_text, hist)
  /\ UNCHANGED <<trained, model, vectorizer, remembered, history, appVars,
                 callbackVars, endpointVars, agentVars, extractVars, storeVars>>

ExtractGiven(hist, current_message) ==
  /\ ~analysed.made /\ extracted = NoExtraction
  /\ extracted' = [fn |-> "utils", history |-> hist, message |-> current_message,
                   given |-> extract_given(hist, current_message)]
  /\ UNCHANGED restOfExtract

NextGiven ==
  \/ \E m \in GivenMessages, h \in GivenHistories : AnalyzeGiven(m, h)
  \/ \E m \in GivenMessages, h \in GivenHistories : ExtractGiven(h, m)

SpecGiven == Init /\ [][NextGiven]_vars

(***************************************************************************)
(* The claims.                                                             *)
(***************************************************************************)
\* The safe phrases as the specification lists them.
SafePhrases ==
  << <<"s","c","h","e","d","u","l","e","d"," ","m","a","i","n","t","e","n","a","n","c","e">>,
    <<"m","a","i","n","t","e","n","a","n","c","e">>,
    <<"d","e","b","i","t","e","d">>,
    <<"c","r","e","d","i","t","e","d">>,
    <<"a","v","a","i","l","a","b","l","e"," ","b","a","l","a","n","c","e">>,
    <<"a","v","l"," ","b","a","l">> >>

HasSafePhrase(text) ==
  \E k \in 1..Len(SafePhrases) : In(SafePhrases[k], lower(text))

\* The text the last call analysed and what the classifier says of it:
\* the probability in trees, and whether it reaches a bound in hundredths.
Analysed == result.combined_text_used
AnalysedMl == predict_proba(model, Analysed)
MlAtLeast(hundredths) == 100 * AnalysedMl >= hundredths * n_estimators

\* C1: whenever the combined text of a call contains a safe phrase, in any
\* letter case, the result is not scam with confidence 0.05 and classifier
\* probability 0; the legitimacy score is 1.0 if "maintenance" occurs and
\* 0.667 otherwise -- whatever the classifier says of the text and whatever
\* scam signals it carries.
C1_SafeShortCircuit ==
  (analysed.made /\ HasSafePhrase(Analysed)) =>
    /\ result.is_scam = FALSE
    /\ result.confidence = 50
    /\ result.ml_probability = 0
    /\ result.legitimacy_score =
         IF In(Maintenance, lower(Analysed)) THEN 1000 ELSE 667

\* A safe phrase in mixed case among scam signals (score 6 or more) that the
\* classifier takes for a certain scam, and the result is not scam.
C1_Witness ==
  /\ analysed.made
  /\ HasSafePhrase(Analysed)
  /\ ~_contains(SafePhrases, Analysed)
  /\ _heuristic_score(Analysed) >= 6
  /\ AnalysedMl = n_estimators
  /\ result.is_scam = FALSE

\* C2: a scam verdict needs the raw threshold (probability >= 0.55, or
\* >= 0.45 with heuristic score >= 3), a legitimacy score below 0.7, and
\* that no guard fired: no safe phrase, no safe override, no low signal.
C2_AsymmetricVerdict ==
  (analysed.made /\ result.is_scam) =>
    /\ MlAtLeast(55) \/ (MlAtLeast(45) /\ result.heuristic_score >= 3)
    /\ result.legitimacy_score < 700
    /\ ~HasSafePhrase(Analysed)
    /\ ~(result.legitimacy_score >= 300 /\ result.heuristic_score <= 1)
    /\ ~legit_override(Analysed)
    /\ ~(result.heuristic_score <= 1 /\ ~MlAtLeast(65))

\* A scam verdict reached on the lower threshold.
C2_Witness ==
  /\ analysed.made
  /\ result.is_scam
  /\ ~MlAtLeast(55)

\* C3: when the safe override holds (legitimacy >= 0.3 with heuristic score
\* <= 1, or a legitimate pattern matches the combined text) the result is
\* not scam with confidence <= 0.15, whatever the classifier says; the OTP
\* notice is never flagged, whatever the history.
C3_LegitimateOverride ==
  analysed.made =>
    /\ ( (result.legitimacy_score >= 300 /\ result.heuristic_score <= 1)
         \/ legit_override(Analysed) )
       => (result.is_scam = FALSE /\ result.confidence <= 150)
    /\ analysed.text = MsgOtp => result.is_scam = FALSE

\* The OTP notice, no safe phrase around it, a classifier that is certain
\* of a scam, and the result is not scam.
C3_Witness ==
  /\ analysed.made
  /\ analysed.text = MsgOtp
  /\ ~HasSafePhrase(Analysed)
  /\ AnalysedMl = n_estimators
  /\ result.heuristic_score > 1
  /\ result.is_scam = FALSE

\* C4: a result with heuristic score <= 1 and classifier probability below
\* 0.65 is not scam and has confidence <= 0.2.
C4_LowSignalGuard ==
  (analysed.made /\ result.heuristic_score <= 1 /\ result.ml_probability < 650) =>
    (result.is_scam = FALSE /\ result.confidence <= 200)

\* A text with no signal and no legitimacy, a probability at or above the
\* scam threshold 0.55 and below 0.65: not scam, confidence capped at 0.2.
C4_Witness ==
  /\ analysed.made
  /\ ~HasSafePhrase(Analysed)
  /\ result.heuristic_score <= 1
  /\ result.legitimacy_score < 300
  /\ result.ml_probability >= 550
  /\ result.ml_probability < 650
  /\ result.is_scam = FALSE
  /\ result.confidence = 200


\* C5: the message "Your bank account will be blocked immediately! Verify
\* now at https://fake-bank.com" with an empty history scores 8 or more, the
\* urgency, financial, action and link categories all hit; the endpoint's
\* classifier returns scam for it whatever the provider does; the detector
\* returns scam for it as soon as the classifier gives it a probability of
\* 0.45 or more (the heuristic score being above 3 and no guard firing).
C5_BlockedMessageIsScam ==
  /\ (analysed.made /\ analysed.text = MsgBlocked /\ analysed.history = << >>) =>
       /\ result.heuristic_score >= 8
       /\ _contains(UrgencyKeywords, lower(Analysed))
       /\ _contains(FinancialKeywords, lower(Analysed))
       /\ _contains(ActionKeywords, lower(Analysed))
       /\ In(<<"h","t","t","p","s",":","/","/">>, lower(Analysed))
       /\ MlAtLeast(45) => result.is_scam = TRUE
  /\ (request.made /\ request.text = MsgBlocked /\ request.history = << >>) =>
       verdict = TRUE

\* Both were given the message with an empty history, and both say scam.
C5_Witness ==
  /\ analysed.made /\ analysed.text = MsgBlocked /\ analysed.history = << >>
  /\ request.made /\ request.text = MsgBlocked /\ request.history = << >>
  /\ result.is_scam = TRUE
  /\ result.heuristic_score = 8
  /\ verdict = TRUE

\* C6: every result has confidence in [0, 0.99], classifier probability and
\* legitimacy score in [0, 1] and a heuristic score that is a natural
\* number; past the safe short-circuit the confidence is
\* max(probability, heuristic / 6) * (1 - 0.4 * legitimacy), clamped to
\* [0, 0.99] and rounded to three decimals (the nearest thousandth), then
\* capped at 0.15 under the safe override and at 0.2 under the low-signal
\* guard, and changed by nothing else.
C6_ResultRanges ==
  analysed.made =>
    /\ result.confidence \in 0..990
    /\ result.ml_probability \in 0..1000
    /\ result.legitimacy_score \in 0..1000
    /\ result.heuristic_score \in Nat
    /\ ~HasSafePhrase(Analysed) =>
         LET h    == result.heuristic_score
             leg  == result.legitimacy_score
             \* the exact product, in thousandths, is num / den
             num  == (IF 6 * AnalysedMl >= 120 * h THEN 6 * AnalysedMl ELSE 120 * h)
                       * (10000 - 4 * leg)
             den  == 7200
             over == (leg >= 300 /\ h <= 1) \/ legit_override(Analysed)
             low  == h <= 1 /\ ~MlAtLeast(65)
             Near(b) == IF num >= 990 * den THEN b = 990
                        ELSE /\ 2 * (b * den - num) <= den
                             /\ 2 * (num - b * den) <= den
         IN  \E b \in 0..990 :
               /\ Near(b)
               /\ result.confidence =
                    IF over THEN (IF b <= 150 THEN b ELSE 150)
                    ELSE IF low THEN (IF b <= 200 THEN b ELSE 200)
                    ELSE b

\* Past the short-circuit: a confidence damped by a legitimacy score, under
\* no cap; the rounded probability differs from the exact one.
C6_Witness ==
  /\ analysed.made
  /\ ~HasSafePhrase(Analysed)
  /\ result.legitimacy_score > 0
  /\ result.confidence > 200
  /\ result.confidence < 990
  /\ result.ml_probability * n_estimators # 1000 * AnalysedMl

\* C7: two calls of one detector with the same message and history return
\* the same result, whatever calls were made in between; a call leaves the
\* model, the vectorizer and the caller's history as they were.
C7_Deterministic ==
  /\ []( ( /\ analysed.made /\ remembered.made
           /\ analysed.text = remembered.text
           /\ analysed.history = remembered.history )
         => result = remembered.result )
  /\ [][ (analysed' # analysed \/ result' # result \/ remembered' # remembered)
         => (model' = model /\ vectorizer' = vectorizer /\ history' = history) ]_vars

\* The kept call is repeated after a call with other arguments, and the
\* result is the kept one.
C7_Witness ==
  /\ remembered.made
  /\ remembered.others
  /\ analysed.made
  /\ analysed.text = remembered.text
  /\ analysed.history = remembered.history
  /\ analysed.history # << >>
  /\ result = remembered.result

\* The texts of the last three scammer messages of a history, whatever lies
\* between them.
ScammerTexts(hist) ==
  LET scam == SelectSeq(hist, LAMBDA m : m.sender = "scammer")
      last == SubSeq(scam, Max(1, Len(scam) - 2), Len(scam))
  IN  [i \in 1..Len(last) |-> last[i].text]

\* C8: the combined text of a call is the trimmed message followed by the
\* texts of the last three scammer messages of the history (all of them if
\* there are fewer), in their order; messages of other senders are skipped
\* when the three are chosen.
C8_LastThreeScammerMessages ==
  analysed.made =>
    result.combined_text_used =
      strip(strip(analysed.text) \o <<" ">> \o join(ScammerTexts(analysed.history)))

\* Whether a keyword of the category occurs in the text, in any letter case.
Occurs(keywords, text) ==
  LET folded == [i \in 1..Len(text) |->
                   IF text[i] \in DOMAIN LowerOf THEN LowerOf[text[i]] ELSE text[i]]
  IN  \E k \in 1..Len(keywords) :
        \E i \in 0..(Len(text) - Len(keywords[k])) :
          \A j \in 1..Len(keywords[k]) : folded[i + j] = keywords[k][j]

CategorySum(text) ==
    (IF Occurs(UrgencyKeywords, text) THEN 2 ELSE 0)
  + (IF Occurs(FinancialKeywords, text) THEN 2 ELSE 0)
  + (IF Occurs(ActionKeywords, text) THEN 1 ELSE 0)
  + (IF Occurs(OtpKeywords, text) THEN 2 ELSE 0)
  + (IF Occurs(RewardKeywords, text) THEN 3 ELSE 0)
  + (IF Occurs(<< <<"h","t","t","p",":","/","/">>,
                  <<"h","t","t","p","s",":","/","/">> >>, text) THEN 3 ELSE 0)

\* C9: the heuristic score of a text is the sum of the weights (2, 2, 1, 2,
\* 3, 3) of the categories of which a keyword occurs in it, in any letter
\* case, each category once; it lies in 0..13, and the score of the message
\* is at most the score of the message with the history texts appended.
C9_HeuristicScore ==
  analysed.made =>
    LET message == strip(analysed.text)
    IN  /\ _heuristic_score(Analysed) = CategorySum(Analysed)
        /\ _heuristic_score(Analysed) \in 0..13
        /\ _heuristic_score(message) <= _heuristic_score(Analysed)
        /\ ~HasSafePhrase(Analysed) => result.heuristic_score = CategorySum(Analysed)

\* Three reward keywords in the message count once; the appended history
\* raises the score.
C9_Witness ==
  /\ analysed.made
  /\ analysed.text = MsgWon
  /\ Hits(RewardKeywords, lower(Analysed)) >= 3
  /\ _heuristic_score(strip(analysed.text)) = 3
  /\ result.heuristic_score > 3

\* C10: the endpoint's classifier returns scam for a message that scores 4
\* or more and safe for one that scores below 2, whatever the history and
\* the provider; for a score of 2 or 3 it returns scam exactly when a
\* scammer message of the history scores 2 or more or the provider answers
\* SCAM, and safe when the provider is unavailable and there is no such
\* message.
C10_ThreeTiers ==
  request.made =>
    LET score   == scam_signal_score(request.text)
        pattern == \E k \in 1..Len(request.history) :
                     /\ request.history[k].sender = "scammer"
                     /\ scam_signal_score(request.history[k].text) >= 2
        says    == /\ ai_answer.asked
                   /\ ai_answer.ok
                   /\ upper(strip(ai_answer.content)) = Scam
    IN  /\ score >= 4 => verdict = TRUE
        /\ score < 2 => verdict = FALSE
        /\ score \in 2..3 => (verdict = TRUE <=> (pattern \/ says))
        /\ (score \in 2..3 /\ ~ai_available /\ ~pattern) => verdict = FALSE

\* The calls so far that carried the session id.
CallsWith(sid) == {i \in 1..Len(calls) : calls[i].sid = sid}
\* The deliveries so far that were started for the session id.
DeliveriesFor(sid) == {k \in 1..Len(deliveries) : deliveries[k].sid = sid}

\* C11: over calls of send_callback_async made one after the other, a call
\* with a non-empty session id returns True exactly when no earlier call
\* carried that id; the call that returned True started one delivery and no
\* other call with the id started any, whatever became of that delivery;
\* and a session id once in the set of notified sessions stays in it.
C11_AtMostOncePerSession ==
  /\ [](\A i \in 1..Len(calls) :
          Truthy(calls[i].sid) =>
            /\ calls[i].returned = (\A j \in 1..(i - 1) : calls[j].sid # calls[i].sid)
            /\ Cardinality({k \in 1..Len(deliveries) : deliveries[k].call = i})
                 = (IF calls[i].returned THEN 1 ELSE 0)
            /\ Cardinality(DeliveriesFor(calls[i].sid)) = 1
            /\ calls[i].sid \in _sent_sessions)
  /\ [][_sent_sessions \subseteq _sent_sessions']_vars

\* Three calls for one session: the first returned True and its delivery
\* failed, the two later ones returned False, and one delivery exists.
C11_Witness ==
  /\ Cardinality(CallsWith("s1")) >= 3
  /\ \E i \in CallsWith("s1") : calls[i].returned
  /\ \E i, j \in CallsWith("s1") : i # j /\ ~calls[i].returned /\ ~calls[j].returned
  /\ \E k \in DeliveriesFor("s1") : deliveries[k].state = "failed"
  /\ Cardinality(DeliveriesFor("s1")) = 1

\* C12: when request threads are inside send_callback_async with the same
\* non-empty session id at the same time, at most one of them starts a
\* delivery and at most one returns True, under every interleaving of the
\* membership test and the insertion.
C12_AtMostOnceConcurrently ==
  \A sid \in SessionIds :
    Truthy(sid) =>
      /\ Cardinality(DeliveriesFor(sid)) <= 1
      /\ Cardinality({t \in Threads : /\ callers[t].pc = "returned"
                                      /\ callers[t].sid = sid
                                      /\ callers[t].returned}) <= 1

\* The texts of a sequence of templates.
Range(options) == {options[k] : k \in 1..Len(options)}

\* The call of generate_reply on record met a provider that gave nothing:
\* no client, an exception (network, timeout, a response without choices),
\* or a content that is None, empty or blank.
ProviderGaveNothing ==
  \/ agent_client = NoClient
  \/ ~reply.outcome.ok
  \/ \A i \in 1..Len(reply.outcome.content) : reply.outcome.content[i] \in Whitespace

\* C16: a call generate_reply(True, depth, text) whose provider is missing,
\* raises, or returns nothing does not raise, and returns a non-empty text
\* that is one of the templates of the intent of the depth.
C16_FallbackToTemplate ==
  (reply # NoReply /\ reply.fn = "generate_reply" /\ reply.is_scam
     /\ ProviderGaveNothing) =>
    /\ ~reply.raised
    /\ reply.text # << >>
    /\ reply.text \in Range(templates[intent_for_depth(reply.depth)])

\* The provider raised, the last message prefers templates that none of the
\* intent's has, and a template of the intent came back.
C16_Witness ==
  /\ reply # NoReply /\ reply.fn = "generate_reply" /\ reply.is_scam
  /\ agent_client # NoClient
  /\ reply.outcome = ReplyRaises
  /\ reply.last = MsgConfirmUpi
  /\ reply.depth = 0
  /\ reply.text \in Range(templates["confused and worried"])

\* C17: for a message that is no scam, generate_reply returns "Thanks for
\* the update." and app.py's agent_reply returns "Thanks for letting me
\* know, I appreciate the information.", each at every depth and for every
\* last scammer message, and neither calls the provider.
C17_BenignReply ==
  (reply # NoReply /\ ~reply.is_scam) =>
    /\ ~reply.raised
    /\ reply.outcome = NoAnswer
    /\ reply.fn = "generate_reply" =>
         reply.text = <<"T","h","a","n","k","s"," ","f","o","r"," ","t","h","e"," ",
                        "u","p","d","a","t","e",".">>
    /\ reply.fn = "agent_reply" =>
         reply.text = <<"T","h","a","n","k","s"," ","f","o","r"," ","l","e","t","t",
                        "i","n","g"," ","m","e"," ","k","n","o","w",","," ","I"," ",
                        "a","p","p","r","e","c","i","a","t","e"," ","t","h","e"," ",
                        "i","n","f","o","r","m","a","t","i","o","n",".">>

\* A benign reply at a depth past the table, after a message with signals,
\* from an agent that has a client.
C17_Witness ==
  /\ reply # NoReply /\ ~reply.is_scam
  /\ reply.fn = "generate_reply"
  /\ agent_client # NoClient
  /\ reply.depth = 100
  /\ reply.last = MsgConfirmUpi
  /\ reply.text = BenignReply

\* C18: intent_for_depth maps the depths 0 to 4 to "confused and worried",
\* "needs explanation", "suspicious but polite", "seeking confirmation" and
\* "asking for guidance", and every depth above 7, such as 100, to the
\* intent of depth 7.
C18_DepthToIntent ==
  (reply # NoReply /\ reply.fn = "generate_reply") =>
    LET d == reply.depth
    IN  /\ d = 0 => intent_for_depth(d) = "confused and worried"
        /\ d = 1 => intent_for_depth(d) = "needs explanation"
        /\ d = 2 => intent_for_depth(d) = "suspicious but polite"
        /\ d = 3 => intent_for_depth(d) = "seeking confirmation"
        /\ d = 4 => intent_for_depth(d) = "asking for guidance"
        /\ d > 7 => intent_for_depth(d) = intent_for_depth(7)
        /\ intent_for_depth(100) = intent_for_depth(7)
        /\ (reply.is_scam /\ ProviderGaveNothing /\ d > 7) =>
             reply.text \in Range(templates[intent_for_depth(7)])

\* A call at depth 100 answered with a template of depth 7's intent.
C18_Witness ==
  /\ reply # NoReply /\ reply.fn = "generate_reply" /\ reply.is_scam
  /\ reply.depth = 100
  /\ reply.text \in Range(templates["asking for verification"])

(***************************************************************************)
(* Extraction.                                                             *)
(***************************************************************************)
\* The values of a field of the result: extract_intelligence of
\* utils/intelligence.py returns a sorted list, the one of app.py a list in
\* no particular order.
Listed(field) == IF extracted.fn = "utils" THEN Range(field) ELSE field

\* How many times a value is in a field of the result.
Times(value, field) ==
  IF extracted.fn = "utils"
  THEN Cardinality({k \in 1..Len(field) : field[k] = value})
  ELSE IF value \in field THEN 1 ELSE 0

\* The list has no value twice and is in ascending order.
SortedNoDuplicates(list) ==
  \A j, k \in 1..Len(list) : j < k => Before(list[j], list[k])

\* The message holds the UPI id, the phone number, the link and the account
\* number of the extraction test.
HoldsTheFourValues(text) ==
  /\ In(UpiValue, text) /\ In(PhoneValue, text)
  /\ In(LinkValue, text) /\ In(BankValue, text)

C19_ValuesReturned ==
  (extracted # NoExtraction /\ HoldsTheFourValues(extracted.message)) =>
    /\ Times(UpiValue, extracted.intelligence.upiIds) = 1
    /\ Times(PhoneValue, extracted.intelligence.phoneNumbers) = 1
    /\ Times(LinkValue, extracted.intelligence.phishingLinks) = 1
    /\ Times(BankValue, extracted.intelligence.bankAccounts) = 1

C19_ListsSorted ==
  (extracted # NoExtraction /\ extracted.fn = "utils") =>
    /\ SortedNoDuplicates(extracted.intelligence.bankAccounts)
    /\ SortedNoDuplicates(extracted.intelligence.upiIds)
    /\ SortedNoDuplicates(extracted.intelligence.phishingLinks)
    /\ SortedNoDuplicates(extracted.intelligence.phoneNumbers)
    /\ SortedNoDuplicates(extracted.intelligence.suspiciousKeywords)

\* C19: from a message that holds attacker@paytm, +919876543210,
\* https://malicious-site.com and 1234-5678-9012, extract_intelligence returns
\* exactly each of these values, once, in upiIds, phoneNumbers, phishingLinks
\* and bankAccounts, also when the value is followed by punctuation or is
\* there twice; every list is free of duplicates and sorted.
C19_ExtractionRoundTrip == C19_ValuesReturned /\ C19_ListsSorted

\* The scammer messages of a history.
scammer_only(hist) == SelectSeq(hist, LAMBDA e : e.sender = "scammer")

\* The function that made the extraction.
extractor(fn, hist, current_message) ==
  IF fn = "utils" THEN extract_intelligence(hist, current_message)
  ELSE app_extract_intelligence(hist, current_message)

\* C20: the extraction is made from the current message and every scammer
\* message of the history, wherever it is in the history: the result is the
\* one of the history without the messages of other senders, every UPI id
\* of a scammer message is in it, and a UPI id of another sender's message is
\* in it only if the current message or a scammer message holds it.
C20_ScammerMessagesOnly ==
  extracted # NoExtraction =>
    LET hist  == extracted.history
        found == Listed(extracted.intelligence.upiIds)
        ids(text) == set(findall(UpiPattern, text))
    IN  /\ extracted.intelligence
             = extractor(extracted.fn, scammer_only(hist), extracted.message)
        /\ \A k \in 1..Len(hist) :
             hist[k].sender = "scammer" => ids(hist[k].text) \subseteq found
        /\ \A k \in 1..Len(hist) :
             hist[k].sender # "scammer" =>
               \A v \in ids(hist[k].text) \cap found :
                 \/ v \in ids(extracted.message)
                 \/ \E j \in 1..Len(hist) :
                      hist[j].sender = "scammer" /\ v \in ids(hist[j].text)

\* A scammer message older than the last three contributes its UPI id, the
\* user's message after it does not.
C20_Witness ==
  /\ extracted # NoExtraction
  /\ Len(extracted.history) = MaxExtractHist
  /\ extracted.history[1].sender = "scammer"
  /\ \A k \in 2..MaxExtractHist : extracted.history[k].sender = "user"
  /\ \E k \in 2..MaxExtractHist : In(UserUpiValue, extracted.history[k].text)
  /\ HistUpiValue \in Listed(extracted.intelligence.upiIds)
  /\ UserUpiValue \notin Listed(extracted.intelligence.upiIds)
  /\ UserPhoneValue \notin Listed(extracted.intelligence.phoneNumbers)

(***************************************************************************)
(* The endpoint.                                                           *)
(***************************************************************************)
\* The posts to the collector that carry a session id.
PostsFor(sid) == {k \in 1..Len(posts) : posts[k].json.sessionId = sid}

\* C13: over the requests to /api/honeypot that carry the same sessionId,
\* the collector is posted to at most once for that session.
C13_EndpointAtMostOnce ==
  \A s \in EndpointSessions : Cardinality(PostsFor(session_of(s))) <= 1

\* What honeypot() has computed for its caller, from the request on.
HasVerdict(answer) == "scamDetected" \in DOMAIN answer.body
HasIntelligence(answer) == "extractedIntelligence" \in DOMAIN answer.body
TotalOf(answer) == answer.body.engagementMetrics.totalMessagesExchanged
ScamWithEnoughMessages(answer) ==
  /\ HasVerdict(answer)
  /\ answer.body.scamDetected
  /\ TotalOf(answer) >= 4

\* C14: a response holds extractedIntelligence, and the request posts to the
\* collector, exactly when scamDetected is true and the number of messages
\* (the length of the history plus one) is at least 4; otherwise there is
\* neither.
C14_IntelligenceGating ==
  [][ (handler = Idle /\ response = NoResponse
         /\ (handler' # Idle \/ response' # NoResponse)) =>
        LET answer == IF handler' # Idle THEN handler' ELSE response'
        IN  /\ HasVerdict(answer) => TotalOf(answer) = Len(history) + 1
            /\ HasIntelligence(answer) <=> ScamWithEnoughMessages(answer)
            /\ (posts' # posts) <=> ScamWithEnoughMessages(answer)
            /\ posts' # posts =>
                 /\ Len(posts') = Len(posts) + 1
                 /\ posts'[Len(posts')].json.extractedIntelligence
                      = answer.body.extractedIntelligence
    ]_vars

\* The fourth message of a scam conversation was answered with the
\* intelligence and posted; the fifth, not a scam, is answered without.
C14_Witness ==
  /\ response # NoResponse
  /\ HasVerdict(response)
  /\ ~response.body.scamDetected
  /\ TotalOf(response) = 5
  /\ ~HasIntelligence(response)
  /\ Len(posts) = 1
  /\ posts[1].json.totalMessagesExchanged = 4

\* C15: the caller of the endpoint is never blocked on the delivery to the
\* collector: no request is still without its response while its post to
\* the collector is under way.
C15_CallerNeverBlocked ==
  ~(handler # Idle /\ response = NoResponse
      /\ posts # << >> /\ posts[Len(posts)].state = Pending)

\* The rest of what is said of the delivery in the endpoint: however the post
\* ends, the caller gets the status and the body computed before it, and
\* no further post is made for it.
C15_FailureOnlyLogged ==
  [][ (handler # Idle /\ handler' = Idle) =>
        /\ response' = [request |-> handler.request, status |-> handler.status,
                        body |-> handler.body]
        /\ response'.status = 200
        /\ Len(posts') = Len(posts)
        /\ \A k \in 1..(Len(posts) - 1) : posts'[k] = posts[k]
    ]_vars

\* ... and in send_callback_async: the call has returned while the delivery
\* it started is still pending, and a failed delivery is not started again.
C15_AsyncReturnsAtOnce ==
  [][ /\ Len(calls') > Len(calls) /\ calls'[Len(calls')].returned =>
          /\ Len(deliveries') = Len(deliveries) + 1
          /\ deliveries'[Len(deliveries')].state = Pending
      /\ Len(deliveries') > Len(deliveries) => Len(calls') > Len(calls)
    ]_vars

(***************************************************************************)
(* Confidence and verdict.                                                 *)
(***************************************************************************)
\* Two results of one detector, the first a scam and the second not.
ScamAbove(scam, other) ==
  (scam.is_scam /\ ~other.is_scam) => scam.confidence > other.confidence

\* C27: every result of analyze with is_scam true has a strictly higher
\* confidence than every result with is_scam false.
C27_ConfidenceFollowsVerdict ==
  remembered.made =>
    /\ ScamAbove(result, remembered.result)
    /\ ScamAbove(remembered.result, result)

(***************************************************************************)
(* The text of a reply.                                                    *)
(***************************************************************************)
\* A call of generate_reply for a scam that returned.
ScamReplyReturned ==
  /\ reply # NoReply
  /\ reply.fn = "generate_reply"
  /\ reply.is_scam
  /\ ~reply.raised

\* C26: for is_scam true, whatever the provider returns, the string that
\* generate_reply returns holds a character that is not whitespace, no line
\* break, no double quote and no asterisk, and at most 18 words.
C26_NeverBlank ==
  ScamReplyReturned =>
    /\ \E k \in 1..Len(reply.text) : reply.text[k] \notin Whitespace
    /\ \A k \in 1..Len(reply.text) : reply.text[k] \notin {"\n", "\"", "*"}
    /\ Len(split(reply.text)) <= 18

\* What does hold: the reply is never the empty string and never has more
\* than 18 words, line breaks, quotes or asterisks.
C26_NeverEmpty ==
  ScamReplyReturned =>
    /\ reply.text # << >>
    /\ \A k \in 1..Len(reply.text) : reply.text[k] \notin {"\n", "\"", "*"}
    /\ Len(split(reply.text)) <= 18
    /\ (reply.outcome.ok /\ Len(_clean(reply.outcome.content)) < 3) =>
         reply.text \in Range(templates[intent_for_depth(reply.depth)])

(***************************************************************************)
(* The choice of a template.                                               *)
(***************************************************************************)
\* The text holds one of the words, in any case.
Mentions(text, words) == \E w \in words : In(w, lower(text))

\* The templates of the intent that hold one of the words.
TemplatesWith(intent, words) ==
  {t \in Range(templates[intent]) : Mentions(t, words)}

\* C25: a reply that _template_reply made is one of the templates of the
\* intent; if the last scammer message holds "verify" or "confirm" and the
\* intent has templates that mention verify or confirm, the reply is one of
\* them; if it holds "upi" or "pay" and the intent has templates that
\* mention step or guide, the reply is one of them; the candidates are
\* never none (the call does not raise).
C25_TemplatePreference ==
  (reply # NoReply /\ reply.fn = "generate_reply" /\ reply.is_scam
     /\ ProviderGaveNothing) =>
    LET intent == intent_for_depth(reply.depth)
        verification == TemplatesWith(intent, {Verify, Confirm})
        guidance     == TemplatesWith(intent, {Step, Guide})
    IN  /\ ~reply.raised
        /\ reply.text \in Range(templates[intent])
        /\ (Mentions(reply.last, {Verify, Confirm}) /\ verification # {})
             => reply.text \in verification
        /\ (Mentions(reply.last, {Upi, Pay}) /\ guidance # {})
             => reply.text \in guidance

\* The last message holds a verification and a payment keyword, the intent
\* has no verification template but has guidance templates, and one of
\* these came back.
C25_Witness ==
  /\ reply # NoReply /\ reply.fn = "generate_reply" /\ reply.is_scam
  /\ ProviderGaveNothing
  /\ reply.last = MsgConfirmUpi
  /\ TemplatesWith(intent_for_depth(reply.depth), {Verify, Confirm}) = {}
  /\ TemplatesWith(intent_for_depth(reply.depth), {Step, Guide}) # {}
  /\ Mentions(reply.text, {Step, Guide})

(***************************************************************************)
(* The artifact file and the construction of the detector.                 *)
(***************************************************************************)
\* The step in which ScamDetector() runs.
Constructs == constructed = "no" /\ constructed' # "no"

\* C21: with a writable store, construction from any artifact file (absent,
\* unreadable, other version, current version) ends with model and
\* vectorizer set; a current artifact is loaded and the file is not written;
\* in every other case the model is fitted and the file then holds a
\* current artifact; after the construction analyze neither loads nor fits.
C21_LoadOrTrain ==
  [][writable =>
       /\ Constructs =>
            /\ constructed' = "yes"
            /\ model' = trained /\ vectorizer' = Fitted
            /\ IF store = artifact(CurrentVersion)
               THEN store' = store /\ fits' = fits /\ writes' = writes
               ELSE /\ store' = artifact(CurrentVersion)
                    /\ fits' = fits + 1 /\ writes' = writes + 1
       /\ constructed = "yes" =>
            UNCHANGED <<store, fits, writes, model, vectorizer>>]_vars

\* A detector built by fitting, whose file is now current, has analysed a
\* message.
C21_Witness ==
  /\ constructed = "yes" /\ fits = 1 /\ writes = 1
  /\ store = artifact(CurrentVersion)
  /\ analysed.made /\ result # NoResult /\ result # AnalyzeRaised

\* A detector built from the current artifact of the file has analysed a
\* message.
C21_LoadedWitness ==
  /\ constructed = "yes" /\ fits = 0 /\ writes = 0
  /\ analysed.made /\ result # NoResult /\ result # AnalyzeRaised

\* C22: when the classifier can be neither loaded nor fitted and stored,
\* ScamDetector() does not raise.
C22_ConstructionNeverRaises == constructed # "raised"

(***************************************************************************)
(* Arguments of any shape.                                                 *)
(***************************************************************************)
\* C23: analyze and extract_intelligence return a result, and do not
\* raise, whatever the message text and the history are.
C23_NeverRaises ==
  /\ result # AnalyzeRaised
  /\ extracted # NoExtraction => ~extracted.given.raised

(***************************************************************************)
(* Several constructions at once.                                          *)
(***************************************************************************)
AllDone == \A i \in Instances : loaders[i].pc = "done"

\* C24: of several ScamDetector() calls that run at the same time on one
\* artifact file, none raises, each one that has returned has its model and
\* its vectorizer, and when all have returned the file holds one whole
\* artifact of the current version.
C24_ConcurrentStart ==
  /\ \A i \in Instances :
       /\ loaders[i].pc # "raised"
       /\ loaders[i].pc = "done" =>
            loaders[i].model = trained /\ loaders[i].vectorizer = Fitted
  /\ AllDone => store = artifact(CurrentVersion)

\* All have returned, and one of them had found a part of the file that
\* another was writing.
C24_Witness ==
  /\ AllDone
  /\ \E i \in Instances : loaders[i].found = "a part"
  /\ writes > 1
=============================================================================
